---- MODULE Spec2Model ----
(***************************************************************************)
(* Organization authorization and invitation lifecycle of django-logics    *)
(* (src/organization/services.py), modelled as a state machine over the    *)
(* three stored tables (Organization, Member, Invitation) and the clock,    *)
(* and the put operation of the media services (src/media/services.py,     *)
(* src/mediafile/services.py) over the Media and MediaFile rows.           *)
(***************************************************************************)
EXTENDS Integers, Sequences, FiniteSets, TLC

VARIABLES organizations, members, invitations, now, result, calls, media_rows

vars == <<organizations, members, invitations, now, result, calls,
         media_rows>>
db == <<organizations, members, invitations>>

(***************************************************************************)
(* Bounds of the model.                                                    *)
(***************************************************************************)
MaxOrgs == 2
MaxMembers == 2
MaxInvitations == 1
MaxTime == 1
MaxLevel == 3
MaxRows == 4
MaxCalls == 2

(***************************************************************************)
(* Principals.  A user is a row of the injected user model; the anonymous  *)
(* principal is the only one whose is_authenticated flag is false.         *)
(***************************************************************************)
Users == {"A", "B"}
Anonymous == "anonymous"
Principals == Users \cup {Anonymous}
is_authenticated(user) == user \in Users
UserEmail == [u \in Users |-> IF u = "A" THEN "a@x.com" ELSE "b@x.com"]
Emails == {UserEmail[u] : u \in Users}

None == 0
NoUser == "none"

(***************************************************************************)
(* Enumerations of src/organization/models.py, which is not among the      *)
(* sources: the values follow the repository's design description.         *)
(***************************************************************************)
OWNER == 2
DefaultInvitationLevel == 1
PENDING == "PENDING"
ACCEPTED == "ACCEPTED"
DECLINED == "DECLINED"
CANCELED == "CANCELED"
EXPIRED == "EXPIRED"
InvitationStatus == {PENDING, ACCEPTED, DECLINED, CANCELED, EXPIRED}

Levels == 0..MaxLevel
MemberLevels == 1..MaxLevel
Times == 0..MaxTime

(***************************************************************************)
(* Policy documents.  vtype is the JSON type of the "version" entry        *)
(* ("absent" when the key is missing, "none" when no document is given);   *)
(* statement maps action names to values tagged with their JSON type.  A   *)
(* document without a "statement" key reads as the empty statement         *)
(* (permissions_policy.get('statement', {})).                              *)
(***************************************************************************)
Num(k) == [type |-> "number", value |-> k]
Str == [type |-> "string", value |-> 0]
NoStatement == [a \in {} |-> Num(0)]
Doc(vtype, version, statement) ==
    [vtype |-> vtype, version |-> version, statement |-> statement]

DEFAULT_PERMISSIONS_POLICY == Doc("number", 0, NoStatement)
ModelDefaultPolicy == Doc("number", 0, NoStatement)

PERMISSIONS_POLICY_SCHEMA(doc) ==
    /\ doc.vtype = "number"
    /\ \A a \in DOMAIN doc.statement :
           doc.statement[a].type \in {"string", "number"}

Actions ==
    {"get_sub_organization_set", "update_organization_policy",
     "create_sub_organization", "delete_organization", "get_invitation_set",
     "create_invitation", "update_invitation_permission", "cancel_invitation",
     "get_member_set", "get_member", "update_member_permission"}

PolicyInputs ==
    { DEFAULT_PERMISSIONS_POLICY,
      Doc("number", 1,
          [a \in {"update_member_permission", "get_member_set"} |->
              IF a = "get_member_set" THEN Num(0) ELSE Num(1)]),
      Doc("number", 1,
          [a \in {"update_organization_policy", "create_invitation"} |->
              IF a = "create_invitation" THEN Str ELSE Num(MaxLevel)]),
      Doc("number", 2, NoStatement),
      Doc("absent", 0, NoStatement),
      Doc("none", 0, NoStatement) }

(***************************************************************************)
(* The outcome of a call: the operation, how it ended, the source line of  *)
(* the return or raise that ended it, the ids of the rows it returned or   *)
(* updated in bulk, and the tables it wrote.                               *)
(***************************************************************************)
Exit(op, outcome, line, rows, saved) ==
    [op |-> op, outcome |-> outcome, line |-> line, rows |-> rows,
     saved |-> saved]
Ok(line) == [outcome |-> "ok", line |-> line]
Raise(kind, line) == [outcome |-> kind, line |-> line]
Done(op, e, saved) ==
    Exit(op, e.outcome, e.line, {}, IF e.outcome = "ok" THEN saved ELSE {})

Max(S) == CHOOSE x \in S : \A y \in S : y <= x
NewId(rows) == IF rows = {} THEN 1 ELSE Max({r.id : r \in rows}) + 1

(***************************************************************************)
(* _validate_permissions_policy: jsonschema.validate raises                *)
(* ValidationError on a schema violation; the except clause names          *)
(* jsonschema.ValueError, which the jsonschema module does not define, so  *)
(* the lookup raises AttributeError while the clause is evaluated.         *)
(***************************************************************************)
_validate_permissions_policy(permissions_policy) ==
    IF permissions_policy.vtype = "none" THEN Raise("ValueError", 94)
    ELSE IF ~PERMISSIONS_POLICY_SCHEMA(permissions_policy)
         THEN Raise("AttributeError", 102)
    ELSE Ok(103)

\* Mutation: the level filter is strict (permission_level__gt).
MemberWithLevelGt(organization_id, user_id, level) ==
    \E m \in members :
        /\ m.organization = organization_id
        /\ m.user = user_id
        /\ m.permission_level > level

(***************************************************************************)
(* Member.objects.filter(user_id, organization_id, permission_level__gte)  *)
(***************************************************************************)
MemberWithLevelGte(organization_id, user_id, level) ==
    \E m \in members :
        /\ m.organization = organization_id
        /\ m.user = user_id
        /\ m.permission_level >= level

\* Mutation: a required level of 0 is looked up like any other level, so an
\* action mapped to 0 still needs a Member row.
_check_user_permission_ZeroNeedsMember(action, organization, user) ==
    LET permissions_policy == organization.permissions_policy
        valid == _validate_permissions_policy(permissions_policy)
        version == permissions_policy.version
        statement == permissions_policy.statement
    IN  IF valid.outcome # "ok" THEN valid
        ELSE IF version = 0 THEN
            IF ~MemberWithLevelGte(organization.id, user, OWNER)
            THEN Raise("PermissionDenied", 156)
            ELSE Ok(172)
        ELSE IF version = 1 THEN
            IF action \in DOMAIN statement
            THEN LET permission_level == statement[action]
                 IN  IF permission_level.type = "string"
                     THEN Raise("ValueError", 166)
                     ELSE IF ~MemberWithLevelGte(organization.id, user,
                                                 permission_level.value)
                          THEN Raise("PermissionDenied", 169)
                          ELSE Ok(172)
            ELSE Ok(172)
        ELSE Raise("PermissionDenied", 172)

\* Mutation: the final else branch is missing, so an unrecognized version
\* falls through and the action is allowed.
_check_user_permission_UnknownVersionAllowed(action, organization, user) ==
    LET permissions_policy == organization.permissions_policy
        valid == _validate_permissions_policy(permissions_policy)
        version == permissions_policy.version
        statement == permissions_policy.statement
    IN  IF valid.outcome # "ok" THEN valid
        ELSE IF version = 0 THEN
            IF ~MemberWithLevelGte(organization.id, user, OWNER)
            THEN Raise("PermissionDenied", 156)
            ELSE Ok(172)
        ELSE IF version = 1 THEN
            IF action \in DOMAIN statement
            THEN LET permission_level == statement[action]
                 IN  IF permission_level.type = "string"
                     THEN Raise("ValueError", 166)
                     ELSE IF permission_level.value # 0
                          THEN IF ~MemberWithLevelGte(organization.id, user,
                                                      permission_level.value)
                               THEN Raise("PermissionDenied", 169)
                               ELSE Ok(172)
                          ELSE Ok(172)
            ELSE Ok(172)
        ELSE Ok(172)

(***************************************************************************)
(* _check_user_permission.  A string-valued statement entry reaches the    *)
(* integer lookup permission_level__gte, which rejects it with ValueError. *)
(***************************************************************************)
_check_user_permission(action, organization, user) ==
    LET permissions_policy == organization.permissions_policy
        valid == _validate_permissions_policy(permissions_policy)
        version == permissions_policy.version
        statement == permissions_policy.statement
    IN  IF valid.outcome # "ok" THEN valid
        ELSE IF version = 0 THEN
            IF ~MemberWithLevelGte(organization.id, user, OWNER)
            THEN Raise("PermissionDenied", 156)
            ELSE Ok(172)
        ELSE IF version = 1 THEN
            IF action \in DOMAIN statement
            THEN LET permission_level == statement[action]
                 IN  IF permission_level.type = "string"
                     THEN Raise("ValueError", 166)
                     ELSE IF permission_level.value # 0
                          THEN IF ~MemberWithLevelGte(organization.id, user,
                                                      permission_level.value)
                               THEN Raise("PermissionDenied", 169)
                               ELSE Ok(172)
                          ELSE Ok(172)
            ELSE Ok(172)
        ELSE Raise("PermissionDenied", 172)

Init ==
    /\ organizations = {}
    /\ members = {}
    /\ invitations = {}
    /\ now = 0
    /\ result = Exit("init", "ok", 0, {}, {})
    /\ calls = <<>>
    /\ media_rows = {}

(***************************************************************************)
(* Storage helpers.                                                        *)
(***************************************************************************)
OrganizationById(id) == CHOOSE o \in organizations : o.id = id
Ids(rows) == {r.id : r \in rows}
Replace(rows, row) == {IF r.id = row.id THEN row ELSE r : r \in rows}

(***************************************************************************)
(* get_sub_organization_set                                                *)
(***************************************************************************)
get_sub_organization_set(organization, request_user) ==
    LET gate == _check_user_permission("get_sub_organization_set",
                                       organization, request_user)
        queryset == {o \in organizations :
                        o.super_organization = organization.id}
    IN  /\ result' = IF gate.outcome # "ok"
                     THEN Done("get_sub_organization_set", gate, {})
                     ELSE Exit("get_sub_organization_set", "ok", 209,
                               Ids(queryset), {})
        /\ UNCHANGED <<organizations, members, invitations, now, calls, media_rows>>

(***************************************************************************)
(* get_organization: no gate is asked                                      *)
(***************************************************************************)
get_organization(id, request_user) ==
    LET queryset == {o \in organizations : o.id = id}
    IN  /\ result' = Exit("get_organization", "ok",
                          IF queryset # {} THEN 232 ELSE 235,
                          Ids(queryset), {})
        /\ UNCHANGED <<organizations, members, invitations, now, calls, media_rows>>

(***************************************************************************)
(* The reads of invitations and members take an optional organization;     *)
(* NoOrganization stands for organization=None.                            *)
(***************************************************************************)
NoOrganization ==
    [id |-> None, owner |-> NoUser, super_organization |-> None,
     permissions_policy |-> DEFAULT_PERMISSIONS_POLICY]

(***************************************************************************)
(* get_invitation_set                                                      *)
(***************************************************************************)
get_invitation_set(organization, request_user) ==
    LET gate == _check_user_permission("get_invitation_set",
                                       organization, request_user)
        scoped == organization # NoOrganization
        queryset == {i \in invitations :
                        /\ IF scoped THEN i.organization = organization.id
                           ELSE i.email = UserEmail[request_user]
                        /\ i.expires_at > now
                        /\ i.status = PENDING}
    IN  /\ result' = IF scoped /\ gate.outcome # "ok"
                     THEN Done("get_invitation_set", gate, {})
                     ELSE Exit("get_invitation_set", "ok", 343,
                               Ids(queryset), {})
        /\ UNCHANGED <<organizations, members, invitations, now, calls, media_rows>>

(***************************************************************************)
(* get_invitation: no gate is asked                                        *)
(***************************************************************************)
get_invitation(id, organization, request_user) ==
    LET scoped == organization # NoOrganization
        invitation_set == {i \in invitations :
                              /\ IF scoped
                                 THEN i.organization = organization.id
                                 ELSE i.email = UserEmail[request_user]
                              /\ i.expires_at > now
                              /\ i.id = id
                              /\ i.status = PENDING}
    IN  /\ result' = Exit("get_invitation", "ok",
                          IF invitation_set # {} THEN 381 ELSE 384,
                          Ids(invitation_set), {})
        /\ UNCHANGED <<organizations, members, invitations, now, calls, media_rows>>

(***************************************************************************)
(* get_member_set                                                          *)
(***************************************************************************)
get_member_set(organization, request_user) ==
    LET gate == _check_user_permission("get_member_set",
                                       organization, request_user)
        scoped == organization # NoOrganization
        queryset == {m \in members :
                        IF scoped THEN m.organization = organization.id
                        ELSE m.user = request_user}
    IN  /\ result' = IF scoped /\ gate.outcome # "ok"
                     THEN Done("get_member_set", gate, {})
                     ELSE Exit("get_member_set", "ok", 570,
                               Ids(queryset), {})
        /\ UNCHANGED <<organizations, members, invitations, now, calls, media_rows>>

(***************************************************************************)
(* get_member: the row is looked up first; the gate is asked only when a   *)
(* row was found, for the given organization or else the row's own.        *)
(***************************************************************************)
get_member(id, organization, request_user) ==
    LET scoped == organization # NoOrganization
        member_set == {m \in members :
                          /\ scoped => m.organization = organization.id
                          /\ m.id = id}
        member == CHOOSE m \in member_set : TRUE
        gate == _check_user_permission("get_member",
                    IF scoped THEN organization
                    ELSE OrganizationById(member.organization),
                    request_user)
    IN  /\ result' = IF member_set = {}
                     THEN Exit("get_member", "ok", 602, {}, {})
                     ELSE IF gate.outcome # "ok"
                          THEN Done("get_member", gate, {})
                     ELSE Exit("get_member", "ok", 610, {member.id}, {})
        /\ UNCHANGED <<organizations, members, invitations, now, calls, media_rows>>

(***************************************************************************)
(* update_organization_policy                                              *)
(***************************************************************************)
update_organization_policy_NoGate(permissions_policy, organization, request_user) ==
    LET valid == _validate_permissions_policy(permissions_policy)
        e == IF valid.outcome # "ok" THEN valid ELSE Ok(256)
    IN  /\ organizations' =
               IF e.outcome = "ok"
               THEN Replace(organizations,
                        [organization EXCEPT
                            !.permissions_policy = permissions_policy])
               ELSE organizations
        /\ result' = Done("update_organization_policy", e, {"organization"})
        /\ UNCHANGED <<members, invitations, now, calls, media_rows>>

update_organization_policy(permissions_policy, organization, request_user) ==
    LET gate == _check_user_permission("update_organization_policy",
                                       organization, request_user)
        valid == _validate_permissions_policy(permissions_policy)
        e == IF gate.outcome # "ok" THEN gate
             ELSE IF valid.outcome # "ok" THEN valid
             ELSE Ok(256)
    IN  /\ organizations' =
               IF e.outcome = "ok"
               THEN Replace(organizations,
                        [organization EXCEPT
                            !.permissions_policy = permissions_policy])
               ELSE organizations
        /\ result' = Done("update_organization_policy", e, {"organization"})
        /\ UNCHANGED <<members, invitations, now, calls, media_rows>>

(***************************************************************************)
(* create_organization                                                     *)
(***************************************************************************)
create_organization(request_user) ==
    /\ organizations' = organizations \cup
           {[id |-> NewId(organizations),
             owner |-> request_user,
             super_organization |-> None,
             permissions_policy |-> DEFAULT_PERMISSIONS_POLICY]}
    /\ result' = Exit("create_organization", "ok", 274, {}, {"organization"})
    /\ UNCHANGED <<members, invitations, now, calls, media_rows>>

(***************************************************************************)
(* create_sub_organization: the row is created without a policy, so the    *)
(* model field's default applies.                                          *)
(***************************************************************************)
create_sub_organization_OwnParent(organization, request_user) ==
    LET gate == _check_user_permission("create_sub_organization",
                                       organization, request_user)
        e == IF gate.outcome # "ok" THEN gate ELSE Ok(293)
    IN  /\ organizations' =
               IF e.outcome = "ok"
               THEN organizations \cup
                        {[id |-> NewId(organizations),
                          owner |-> request_user,
                          super_organization |-> NewId(organizations),
                          permissions_policy |-> ModelDefaultPolicy]}
               ELSE organizations
        /\ result' = Done("create_sub_organization", e, {"organization"})
        /\ UNCHANGED <<members, invitations, now, calls, media_rows>>

create_sub_organization(organization, request_user) ==
    LET gate == _check_user_permission("create_sub_organization",
                                       organization, request_user)
        e == IF gate.outcome # "ok" THEN gate ELSE Ok(293)
    IN  /\ organizations' =
               IF e.outcome = "ok"
               THEN organizations \cup
                        {[id |-> NewId(organizations),
                          owner |-> request_user,
                          super_organization |-> organization.id,
                          permissions_policy |-> ModelDefaultPolicy]}
               ELSE organizations
        /\ result' = Done("create_sub_organization", e, {"organization"})
        /\ UNCHANGED <<members, invitations, now, calls, media_rows>>

(***************************************************************************)
(* delete_organization.  The rows referencing an organization protect it   *)
(* from deletion.                                                          *)
(***************************************************************************)
ProtectedReferences(organization) ==
    \/ \E m \in members : m.organization = organization.id
    \/ \E i \in invitations : i.organization = organization.id
    \/ \E o \in organizations : o.super_organization = organization.id

delete_organization(organization, request_user) ==
    LET gate == _check_user_permission("delete_organization",
                                       organization, request_user)
        e == IF gate.outcome # "ok" THEN gate
             ELSE IF ProtectedReferences(organization)
                  THEN Raise("ProtectedError", 311)
             ELSE Ok(312)
    IN  /\ organizations' = IF e.outcome = "ok"
                            THEN organizations \ {organization}
                            ELSE organizations
        /\ result' = Done("delete_organization", e, {"organization"})
        /\ UNCHANGED <<members, invitations, now, calls, media_rows>>

(***************************************************************************)
(* create_invitation                                                       *)
(***************************************************************************)
\* Mutation: the duplicate test looks only at invitations that have left
\* PENDING, so a pending invitation does not block a second one.
AlreadyInvited_NotPending(organization, email) ==
    \E i \in invitations :
        /\ i.organization = organization.id
        /\ i.email = email
        /\ i.status # PENDING

AlreadyInvited(organization, email) ==
    \E i \in invitations :
        i.organization = organization.id /\ i.email = email

AlreadyJoined(organization, email) ==
    \E m \in members :
        m.organization = organization.id /\ UserEmail[m.user] = email

create_invitation(email, expires_at, organization, permission_level, request_user) ==
    LET gate == _check_user_permission("create_invitation",
                                       organization, request_user)
        e == IF AlreadyInvited(organization, email)
             THEN Raise("already_invited", 409)
             ELSE IF AlreadyJoined(organization, email)
                  THEN Raise("already_joined", 415)
             ELSE IF gate.outcome # "ok" THEN gate
             ELSE Ok(433)
    IN  /\ invitations' =
               IF e.outcome = "ok"
               THEN invitations \cup
                        {[id |-> NewId(invitations),
                          organization |-> organization.id,
                          inviter |-> request_user,
                          email |-> email,
                          expires_at |-> expires_at,
                          permission_level |->
                              IF permission_level # 0
                              THEN permission_level
                              ELSE DefaultInvitationLevel,
                          status |-> PENDING]}
               ELSE invitations
        /\ result' = Done("create_invitation", e, {"invitation"})
        /\ UNCHANGED <<organizations, members, now, calls, media_rows>>

(***************************************************************************)
(* update_invitation_permission                                            *)
(***************************************************************************)
\* Mutation: the gate is not asked.
update_invitation_permission_NoGate(invitation, permission_level, request_user) ==
    LET e == IF invitation.status # PENDING THEN Raise("ValueError", 452)
             ELSE Ok(462)
    IN  /\ invitations' =
               IF e.outcome = "ok"
               THEN Replace(invitations,
                        [invitation EXCEPT
                            !.permission_level = permission_level])
               ELSE invitations
        /\ result' = Done("update_invitation_permission", e,
                         {"invitation"})
        /\ UNCHANGED <<organizations, members, now, calls, media_rows>>

update_invitation_permission(invitation, permission_level, request_user) ==
    LET gate == _check_user_permission("update_invitation_permission",
                   OrganizationById(invitation.organization), request_user)
        e == IF invitation.status # PENDING THEN Raise("ValueError", 452)
             ELSE IF gate.outcome # "ok" THEN gate
             ELSE Ok(462)
    IN  /\ invitations' =
               IF e.outcome = "ok"
               THEN Replace(invitations,
                        [invitation EXCEPT
                            !.permission_level = permission_level])
               ELSE invitations
        /\ result' = Done("update_invitation_permission", e,
                         {"invitation"})
        /\ UNCHANGED <<organizations, members, now, calls, media_rows>>

(***************************************************************************)
(* cancel_invitation                                                       *)
(***************************************************************************)
\* Mutation: the status is saved before the gate is asked.
cancel_invitation_SaveBeforeGate(invitation, request_user) ==
    LET gate == _check_user_permission("cancel_invitation",
                   OrganizationById(invitation.organization), request_user)
        e == IF invitation.status # PENDING THEN Raise("ValueError", 476)
             ELSE IF gate.outcome # "ok" THEN gate
             ELSE Ok(486)
    IN  /\ invitations' =
               IF invitation.status = PENDING
               THEN Replace(invitations,
                        [invitation EXCEPT !.status = CANCELED])
               ELSE invitations
        /\ result' = Done("cancel_invitation", e, {"invitation"})
        /\ UNCHANGED <<organizations, members, now, calls, media_rows>>

cancel_invitation(invitation, request_user) ==
    LET gate == _check_user_permission("cancel_invitation",
                   OrganizationById(invitation.organization), request_user)
        e == IF invitation.status # PENDING THEN Raise("ValueError", 476)
             ELSE IF gate.outcome # "ok" THEN gate
             ELSE Ok(486)
    IN  /\ invitations' =
               IF e.outcome = "ok"
               THEN Replace(invitations,
                        [invitation EXCEPT !.status = CANCELED])
               ELSE invitations
        /\ result' = Done("cancel_invitation", e, {"invitation"})
        /\ UNCHANGED <<organizations, members, now, calls, media_rows>>

(***************************************************************************)
(* accept_invitation                                                       *)
(***************************************************************************)
\* Mutation: an invitation whose expires_at equals the current time is
\* still accepted (expires_at < now()).
accept_invitation_ExpiryStrict(invitation, request_user) ==
    LET e == IF invitation.status # PENDING THEN Raise("ValueError", 500)
             ELSE IF invitation.expires_at < now
                  THEN Raise("ValueError", 503)
             ELSE Ok(514)
    IN  /\ invitations' =
               IF e.outcome = "ok"
               THEN Replace(invitations,
                        [invitation EXCEPT !.status = ACCEPTED])
               ELSE invitations
        /\ members' =
               IF e.outcome = "ok"
               THEN members \cup
                        {[id |-> NewId(members),
                          invitation |-> invitation.id,
                          organization |-> invitation.organization,
                          permission_level |-> invitation.permission_level,
                          user |-> request_user]}
               ELSE members
        /\ result' = Done("accept_invitation", e, {"invitation", "member"})
        /\ UNCHANGED <<organizations, now, calls, media_rows>>

\* Mutation: the Member row is created without the invitation's
\* permission_level and so receives the default level.
accept_invitation_DefaultLevel(invitation, request_user) ==
    LET e == IF invitation.status # PENDING THEN Raise("ValueError", 500)
             ELSE IF invitation.expires_at <= now
                  THEN Raise("ValueError", 503)
             ELSE Ok(514)
    IN  /\ invitations' =
               IF e.outcome = "ok"
               THEN Replace(invitations,
                        [invitation EXCEPT !.status = ACCEPTED])
               ELSE invitations
        /\ members' =
               IF e.outcome = "ok"
               THEN members \cup
                        {[id |-> NewId(members),
                          invitation |-> invitation.id,
                          organization |-> invitation.organization,
                          permission_level |-> DefaultInvitationLevel,
                          user |-> request_user]}
               ELSE members
        /\ result' = Done("accept_invitation", e, {"invitation", "member"})
        /\ UNCHANGED <<organizations, now, calls, media_rows>>

\* Mutation: the Member row is created but the status is not saved.
accept_invitation_StatusUnsaved(invitation, request_user) ==
    LET e == IF invitation.status # PENDING THEN Raise("ValueError", 500)
             ELSE IF invitation.expires_at <= now
                  THEN Raise("ValueError", 503)
             ELSE Ok(514)
    IN  /\ invitations' = invitations
        /\ members' =
               IF e.outcome = "ok"
               THEN members \cup
                        {[id |-> NewId(members),
                          invitation |-> invitation.id,
                          organization |-> invitation.organization,
                          permission_level |-> invitation.permission_level,
                          user |-> request_user]}
               ELSE members
        /\ result' = Done("accept_invitation", e, {"invitation", "member"})
        /\ UNCHANGED <<organizations, now, calls, media_rows>>

accept_invitation(invitation, request_user) ==
    LET e == IF invitation.status # PENDING THEN Raise("ValueError", 500)
             ELSE IF invitation.expires_at <= now
                  THEN Raise("ValueError", 503)
             ELSE Ok(514)
    IN  /\ invitations' =
               IF e.outcome = "ok"
               THEN Replace(invitations,
                        [invitation EXCEPT !.status = ACCEPTED])
               ELSE invitations
        /\ members' =
               IF e.outcome = "ok"
               THEN members \cup
                        {[id |-> NewId(members),
                          invitation |-> invitation.id,
                          organization |-> invitation.organization,
                          permission_level |-> invitation.permission_level,
                          user |-> request_user]}
               ELSE members
        /\ result' = Done("accept_invitation", e, {"invitation", "member"})
        /\ UNCHANGED <<organizations, now, calls, media_rows>>

(***************************************************************************)
(* decline_invitation                                                      *)
(***************************************************************************)
\* Mutation: the status of the invitation is not tested.
decline_invitation_AnyStatus(invitation, request_user) ==
    /\ invitations' =
           Replace(invitations, [invitation EXCEPT !.status = DECLINED])
    /\ result' = Done("decline_invitation", Ok(532), {"invitation"})
    /\ UNCHANGED <<organizations, members, now, calls, media_rows>>

\* Mutation: the gate of the invitation's organization is asked.
decline_invitation_Gated(invitation, request_user) ==
    LET gate == _check_user_permission("decline_invitation",
                   OrganizationById(invitation.organization), request_user)
        e == IF invitation.status # PENDING THEN Raise("ValueError", 528)
             ELSE IF gate.outcome # "ok" THEN gate
             ELSE Ok(532)
    IN  /\ invitations' =
               IF e.outcome = "ok"
               THEN Replace(invitations,
                        [invitation EXCEPT !.status = DECLINED])
               ELSE invitations
        /\ result' = Done("decline_invitation", e, {"invitation"})
        /\ UNCHANGED <<organizations, members, now, calls, media_rows>>

decline_invitation(invitation, request_user) ==
    LET e == IF invitation.status # PENDING THEN Raise("ValueError", 528)
             ELSE Ok(532)
    IN  /\ invitations' =
               IF e.outcome = "ok"
               THEN Replace(invitations,
                        [invitation EXCEPT !.status = DECLINED])
               ELSE invitations
        /\ result' = Done("decline_invitation", e, {"invitation"})
        /\ UNCHANGED <<organizations, members, now, calls, media_rows>>

(***************************************************************************)
(* revoke_expired_invitation_set                                           *)
(***************************************************************************)
\* Mutation: the sweep does not filter on the status.
revoke_expired_invitation_set_AnyStatus ==
    LET queryset == {i \in invitations : i.expires_at < now}
    IN  /\ invitations' =
               {IF i \in queryset THEN [i EXCEPT !.status = EXPIRED] ELSE i :
                    i \in invitations}
        /\ result' = Exit("revoke_expired_invitation_set", "ok", 543,
                          Ids(queryset),
                          IF queryset = {} THEN {} ELSE {"invitation"})
        /\ UNCHANGED <<organizations, members, now, calls, media_rows>>

\* Mutation: the comparison with the current time is inverted
\* (expires_at__gt).
revoke_expired_invitation_set_NotYetExpired ==
    LET queryset == {i \in invitations :
                        i.status = PENDING /\ i.expires_at > now}
    IN  /\ invitations' =
               {IF i \in queryset THEN [i EXCEPT !.status = EXPIRED] ELSE i :
                    i \in invitations}
        /\ result' = Exit("revoke_expired_invitation_set", "ok", 543,
                          Ids(queryset),
                          IF queryset = {} THEN {} ELSE {"invitation"})
        /\ UNCHANGED <<organizations, members, now, calls, media_rows>>

revoke_expired_invitation_set ==
    LET queryset == {i \in invitations :
                        i.status = PENDING /\ i.expires_at < now}
    IN  /\ invitations' =
               {IF i \in queryset THEN [i EXCEPT !.status = EXPIRED] ELSE i :
                    i \in invitations}
        /\ result' = Exit("revoke_expired_invitation_set", "ok", 543,
                          Ids(queryset),
                          IF queryset = {} THEN {} ELSE {"invitation"})
        /\ UNCHANGED <<organizations, members, now, calls, media_rows>>

(***************************************************************************)
(* create_owner                                                            *)
(***************************************************************************)
create_owner(organization, user) ==
    LET e == IF ~is_authenticated(user) THEN Raise("ValueError", 619)
             ELSE Ok(627)
    IN  /\ members' =
               IF e.outcome = "ok"
               THEN members \cup
                        {[id |-> NewId(members),
                          invitation |-> None,
                          organization |-> organization.id,
                          permission_level |-> OWNER,
                          user |-> user]}
               ELSE members
        /\ result' = Done("create_owner", e, {"member"})
        /\ UNCHANGED <<organizations, invitations, now, calls, media_rows>>

(***************************************************************************)
(* update_member_permission                                                *)
(***************************************************************************)
\* Mutation: the comparison with the organization's owner is inverted, so
\* the current owner's member is never recognized.
IsCurrentOwnerMember_NotOwner(member, organization) ==
    /\ member.permission_level = OWNER
    /\ member.user # organization.owner

IsCurrentOwnerMember(member, organization) ==
    /\ member.permission_level = OWNER
    /\ member.user = organization.owner

\* Mutation: the queryset is not filtered by permission_level.
NewOwnerQueryset_AnyLevel(organization_id, new_owner) ==
    {m \in members :
        /\ m.organization = organization_id
        /\ m.user = new_owner}

NewOwnerQueryset(organization_id, new_owner) ==
    {m \in members :
        /\ m.organization = organization_id
        /\ m.user = new_owner
        /\ m.permission_level = OWNER}

\* Mutation: the gate is asked before the levels are compared.
update_member_permission_call_GateFirst(member, new_owner, permission_level, request_user) ==
    LET organization == OrganizationById(member.organization)
        gate == _check_user_permission("update_member_permission",
                                       organization, request_user)
        transfer == IsCurrentOwnerMember(member, organization)
        e == IF gate.outcome # "ok" THEN gate
             ELSE IF member.permission_level = permission_level THEN Ok(648)
             ELSE IF transfer /\ new_owner = NoUser
                  THEN Raise("ValueError", 661)
             ELSE IF transfer
                     /\ NewOwnerQueryset(member.organization, new_owner) = {}
                  THEN Raise("ValueError", 676)
             ELSE Ok(680)
        written == e.outcome = "ok" /\ e.line = 680
    IN  [exit |-> e,
         organizations |->
             IF written /\ transfer
             THEN Replace(organizations,
                      [organization EXCEPT !.owner = new_owner])
             ELSE organizations,
         members |->
             IF written
             THEN Replace(members,
                      [member EXCEPT !.permission_level = permission_level])
             ELSE members,
         saved |->
             IF ~written THEN {}
             ELSE IF transfer THEN {"organization", "member"}
             ELSE {"member"}]

update_member_permission_call(member, new_owner, permission_level, request_user) ==
    LET organization == OrganizationById(member.organization)
        gate == _check_user_permission("update_member_permission",
                                       organization, request_user)
        transfer == IsCurrentOwnerMember(member, organization)
        e == IF member.permission_level = permission_level THEN Ok(648)
             ELSE IF gate.outcome # "ok" THEN gate
             ELSE IF transfer /\ new_owner = NoUser
                  THEN Raise("ValueError", 661)
             ELSE IF transfer
                     /\ NewOwnerQueryset(member.organization, new_owner) = {}
                  THEN Raise("ValueError", 676)
             ELSE Ok(680)
        written == e.outcome = "ok" /\ e.line = 680
    IN  [exit |-> e,
         organizations |->
             IF written /\ transfer
             THEN Replace(organizations,
                      [organization EXCEPT !.owner = new_owner])
             ELSE organizations,
         members |->
             IF written
             THEN Replace(members,
                      [member EXCEPT !.permission_level = permission_level])
             ELSE members,
         saved |->
             IF ~written THEN {}
             ELSE IF transfer THEN {"organization", "member"}
             ELSE {"member"}]

update_member_permission(member, new_owner, permission_level, request_user) ==
    LET call == update_member_permission_call(member, new_owner,
                                              permission_level, request_user)
    IN  /\ organizations' = call.organizations
        /\ members' = call.members
        /\ result' = Done("update_member_permission", call.exit, call.saved)
        /\ UNCHANGED <<invitations, now, calls, media_rows>>

(***************************************************************************)
(* The clock (django.utils.timezone.now) advances between calls.           *)
(***************************************************************************)
Tick ==
    /\ now < MaxTime
    /\ now' = now + 1
    /\ result' = Exit("tick", "ok", 0, {}, {})
    /\ UNCHANGED <<organizations, members, invitations, calls, media_rows>>

(***************************************************************************)
(* Organizations and memberships: the operations on the Organization and   *)
(* Member tables, from the empty store.                                    *)
(***************************************************************************)
Next ==
    \/ \E o \in organizations, u \in Users : get_sub_organization_set(o, u)
    \/ \E d \in PolicyInputs, o \in organizations, u \in Users :
           update_organization_policy(d, o, u)
    \/ \E u \in Users :
           Cardinality(organizations) < MaxOrgs /\ create_organization(u)
    \/ \E o \in organizations, u \in Users :
           Cardinality(organizations) < MaxOrgs
               /\ create_sub_organization(o, u)
    \/ \E o \in organizations, u \in Users : delete_organization(o, u)
    \/ \E o \in organizations, u \in Principals :
           Cardinality(members) < MaxMembers /\ create_owner(o, u)
    \/ \E m \in members, n \in Users \cup {NoUser}, l \in MemberLevels,
          u \in Users : update_member_permission(m, n, l, u)

Spec == Init /\ [][Next]_vars

(***************************************************************************)
(* The whole service, invitations and the clock included, from the empty   *)
(* store, with the three tables holding at most MaxRows rows together.     *)
(***************************************************************************)
Rows == Cardinality(organizations) + Cardinality(members)
            + Cardinality(invitations)
ServiceLevels == 0..OWNER
ServicePolicyInputs ==
    {d \in PolicyInputs :
        d.version = 2 \/ "get_member_set" \in DOMAIN d.statement}

ServiceNext ==
    \/ \E o \in organizations, u \in Users : get_sub_organization_set(o, u)
    \/ \E d \in ServicePolicyInputs, o \in organizations, u \in Users :
           update_organization_policy(d, o, u)
    \/ \E u \in Users :
           /\ Rows < MaxRows
           /\ Cardinality(organizations) < MaxOrgs
           /\ create_organization(u)
    \/ \E o \in organizations, u \in Users :
           /\ Rows < MaxRows
           /\ Cardinality(organizations) < MaxOrgs
           /\ create_sub_organization(o, u)
    \/ \E o \in organizations, u \in Users : delete_organization(o, u)
    \/ \E m \in Emails, t \in Times, o \in organizations,
          l \in ServiceLevels, u \in Users :
           /\ Rows < MaxRows
           /\ Cardinality(invitations) < MaxInvitations
           /\ create_invitation(m, t, o, l, u)
    \/ \E i \in invitations, l \in ServiceLevels \ {0}, u \in Users :
           update_invitation_permission(i, l, u)
    \/ \E i \in invitations, u \in Users : cancel_invitation(i, u)
    \/ \E i \in invitations, u \in Users :
           /\ Rows < MaxRows
           /\ Cardinality(members) < MaxMembers
           /\ accept_invitation(i, u)
    \/ \E i \in invitations, u \in Users : decline_invitation(i, u)
    \/ revoke_expired_invitation_set
    \/ \E o \in organizations, u \in Users :
           /\ Rows < MaxRows
           /\ Cardinality(members) < MaxMembers
           /\ create_owner(o, u)
    \/ \E m \in members, n \in Users \cup {NoUser},
          l \in ServiceLevels \ {0}, u \in Users :
           update_member_permission(m, n, l, u)
    \/ Tick

SpecService == Init /\ [][ServiceNext]_vars

(***************************************************************************)
(* Concurrent requests.  update_member_permission runs outside any         *)
(* transaction: each query and each save() is a separate statement, and    *)
(* statements of concurrent calls interleave.  A call works on the Member  *)
(* instance it was given, loaded with its organization (select_related in  *)
(* get_member); permission_level, user and organization.owner are read     *)
(* from that instance, the two membership queries read the tables.         *)
(***************************************************************************)
CallIds == 1..MaxCalls
Running(c) == calls[c].pc \notin {"idle", "done"}
Finish(c, e) == [calls EXCEPT ![c].pc = "done", ![c].exit = e]
Goto(c, pc) == [calls EXCEPT ![c].pc = pc]

ConcInit ==
    /\ organizations =
           {[id |-> 1, owner |-> "A", super_organization |-> None,
             permissions_policy |-> DEFAULT_PERMISSIONS_POLICY]}
    /\ members =
           {[id |-> 1, invitation |-> None, organization |-> 1,
             permission_level |-> OWNER, user |-> "A"],
            [id |-> 2, invitation |-> None, organization |-> 1,
             permission_level |-> OWNER, user |-> "B"]}
    /\ invitations = {}
    /\ now = 0
    /\ result = Exit("init", "ok", 0, {}, {})
    /\ calls = [c \in CallIds |-> [pc |-> "idle"]]
    /\ media_rows = {}

\* lines 637-648: the instance is loaded and compared with the new level
update_member_permission_begin(c, member, new_owner, permission_level, request_user) ==
    /\ calls[c].pc = "idle"
    /\ calls' =
           [calls EXCEPT ![c] =
               [pc |-> IF member.permission_level = permission_level
                       THEN "done" ELSE "authorize",
                exit |-> Ok(648),
                member |-> member,
                organization |-> OrganizationById(member.organization),
                new_owner |-> new_owner,
                permission_level |-> permission_level,
                request_user |-> request_user]]
    /\ UNCHANGED <<organizations, members, invitations, now, result, media_rows>>

\* lines 650-661: the gate, then the test for the current owner's member
update_member_permission_authorize(c) ==
    LET call == calls[c]
        gate == _check_user_permission("update_member_permission",
                                       call.organization, call.request_user)
    IN  /\ call.pc = "authorize"
        /\ calls' =
               IF gate.outcome # "ok" THEN Finish(c, gate)
               ELSE IF ~IsCurrentOwnerMember(call.member, call.organization)
                    THEN Goto(c, "save_member")
               ELSE IF call.new_owner = NoUser
                    THEN Finish(c, Raise("ValueError", 661))
               ELSE Goto(c, "precheck")
        /\ UNCHANGED <<organizations, members, invitations, now, result, media_rows>>

\* lines 663-676: the query for new_owner's OWNER-level membership
update_member_permission_precheck(c) ==
    LET call == calls[c]
    IN  /\ call.pc = "precheck"
        /\ calls' =
               IF NewOwnerQueryset(call.member.organization,
                                   call.new_owner) # {}
               THEN Goto(c, "save_owner")
               ELSE Finish(c, Raise("ValueError", 676))
        /\ UNCHANGED <<organizations, members, invitations, now, result, media_rows>>

\* lines 672-673: organization.save(update_fields=['owner'])
update_member_permission_save_owner(c) ==
    LET call == calls[c]
    IN  /\ call.pc = "save_owner"
        /\ organizations' =
               {IF o.id = call.organization.id
                THEN [o EXCEPT !.owner = call.new_owner] ELSE o :
                    o \in organizations}
        /\ calls' = Goto(c, "save_member")
        /\ UNCHANGED <<members, invitations, now, result, media_rows>>

\* lines 678-680: member.save(update_fields=['permission_level'])
update_member_permission_save_member(c) ==
    LET call == calls[c]
    IN  /\ call.pc = "save_member"
        /\ members' =
               {IF m.id = call.member.id
                THEN [m EXCEPT !.permission_level = call.permission_level]
                ELSE m : m \in members}
        /\ calls' = Finish(c, Ok(680))
        /\ UNCHANGED <<organizations, invitations, now, result, media_rows>>

ConcNext ==
    \/ \E c \in CallIds, m \in members, n \in Users \cup {NoUser},
          l \in MemberLevels, u \in Users :
           update_member_permission_begin(c, m, n, l, u)
    \/ \E c \in CallIds : update_member_permission_authorize(c)
    \/ \E c \in CallIds : update_member_permission_precheck(c)
    \/ \E c \in CallIds : update_member_permission_save_owner(c)
    \/ \E c \in CallIds : update_member_permission_save_member(c)

SpecConc == ConcInit /\ [][ConcNext]_vars

(***************************************************************************)
(* The invitation workflow, one call at a time, on the store left by       *)
(* create_organization(A) and create_owner(organization, A): one           *)
(* organization with the version-0 policy whose owner A holds an OWNER     *)
(* row.  Invitations go to the two users' addresses and to an address that *)
(* belongs to no user.                                                     *)
(***************************************************************************)
InviteMaxInvitations == 2
InviteMaxMembers == 3
InviteEmails == Emails \cup {"c@x.com"}

InviteInit ==
    /\ organizations =
           {[id |-> 1, owner |-> "A", super_organization |-> None,
             permissions_policy |-> DEFAULT_PERMISSIONS_POLICY]}
    /\ members =
           {[id |-> 1, invitation |-> None, organization |-> 1,
             permission_level |-> OWNER, user |-> "A"]}
    /\ invitations = {}
    /\ now = 0
    /\ result = Exit("init", "ok", 0, {}, {})
    /\ calls = << >>
    /\ media_rows = {}

InviteNext ==
    \/ \E m \in InviteEmails, t \in Times, o \in organizations,
          l \in ServiceLevels, u \in Users :
           /\ Cardinality(invitations) < InviteMaxInvitations
           /\ create_invitation(m, t, o, l, u)
    \/ \E i \in invitations, l \in ServiceLevels \ {0}, u \in Users :
           update_invitation_permission(i, l, u)
    \/ \E i \in invitations, u \in Users : cancel_invitation(i, u)
    \/ \E i \in invitations, u \in Users :
           /\ Cardinality(members) < InviteMaxMembers
           /\ accept_invitation(i, u)
    \/ \E i \in invitations, u \in Users : decline_invitation(i, u)
    \/ revoke_expired_invitation_set
    \/ \E o \in organizations, u \in Users :
           /\ Cardinality(members) < InviteMaxMembers
           /\ create_owner(o, u)
    \/ Tick

SpecInvite == InviteInit /\ [][InviteNext]_vars

(***************************************************************************)
(* Concurrent invitation requests.  create_invitation and                  *)
(* accept_invitation open no transaction either: the two exists() queries, *)
(* the gate's query, the insert, the save() of the status and the creation *)
(* of the Member row are separate statements.  The store is the one left   *)
(* by create_organization(A), create_owner(organization, A) and            *)
(* create_invitation('b@x.com', MaxTime, organization, None, A).  A call   *)
(* that has ended may be followed by another one (a retry).                *)
(***************************************************************************)
InviteConcInit ==
    /\ organizations =
           {[id |-> 1, owner |-> "A", super_organization |-> None,
             permissions_policy |-> DEFAULT_PERMISSIONS_POLICY]}
    /\ members =
           {[id |-> 1, invitation |-> None, organization |-> 1,
             permission_level |-> OWNER, user |-> "A"]}
    /\ invitations =
           {[id |-> 1, organization |-> 1, inviter |-> "A",
             email |-> "b@x.com", expires_at |-> MaxTime,
             permission_level |-> DefaultInvitationLevel,
             status |-> PENDING]}
    /\ now = 0
    /\ result = Exit("init", "ok", 0, {}, {})
    /\ calls = [c \in CallIds |-> [pc |-> "idle"]]
    /\ media_rows = {}

\* The uniqueness constraint on (organization, email, PENDING) that the
\* storage layer holds: an insert that would break it is refused.
UniquePendingViolated(organization_id, email) ==
    \E i \in invitations :
        /\ i.organization = organization_id
        /\ i.email = email
        /\ i.status = PENDING

\* lines 386-403: the call is entered with its arguments
create_invitation_begin(c, email, expires_at, organization, permission_level, request_user) ==
    /\ calls[c].pc \in {"idle", "done"}
    /\ calls' =
           [calls EXCEPT ![c] =
               [pc |-> "precheck_invited",
                op |-> "create_invitation",
                exit |-> Ok(0),
                email |-> email,
                expires_at |-> expires_at,
                organization |-> organization,
                permission_level |-> permission_level,
                request_user |-> request_user]]
    /\ UNCHANGED <<organizations, members, invitations, now, result, media_rows>>

\* lines 405-409: the query for an invitation of the pair
create_invitation_precheck_invited(c) ==
    LET call == calls[c]
    IN  /\ call.pc = "precheck_invited"
        /\ calls' =
               IF AlreadyInvited(call.organization, call.email)
               THEN Finish(c, Raise("already_invited", 409))
               ELSE Goto(c, "precheck_joined")
        /\ UNCHANGED <<organizations, members, invitations, now, result, media_rows>>

\* lines 411-415: the query for a member with the address
create_invitation_precheck_joined(c) ==
    LET call == calls[c]
    IN  /\ call.pc = "precheck_joined"
        /\ calls' =
               IF AlreadyJoined(call.organization, call.email)
               THEN Finish(c, Raise("already_joined", 415))
               ELSE Goto(c, "authorize_invitation")
        /\ UNCHANGED <<organizations, members, invitations, now, result, media_rows>>

\* lines 417-421: the gate
create_invitation_authorize(c) ==
    LET call == calls[c]
        gate == _check_user_permission("create_invitation",
                                       call.organization, call.request_user)
    IN  /\ call.pc = "authorize_invitation"
        /\ calls' = IF gate.outcome # "ok" THEN Finish(c, gate)
                    ELSE Goto(c, "insert")
        /\ UNCHANGED <<organizations, members, invitations, now, result, media_rows>>

\* lines 422-433: Invitation.objects.create(...); an IntegrityError of the
\* storage layer is not caught
create_invitation_insert(c) ==
    LET call == calls[c]
        refused == UniquePendingViolated(call.organization.id, call.email)
    IN  /\ call.pc = "insert"
        /\ invitations' =
               IF refused THEN invitations
               ELSE invitations \cup
                        {[id |-> NewId(invitations),
                          organization |-> call.organization.id,
                          inviter |-> call.request_user,
                          email |-> call.email,
                          expires_at |-> call.expires_at,
                          permission_level |->
                              IF call.permission_level # 0
                              THEN call.permission_level
                              ELSE DefaultInvitationLevel,
                          status |-> PENDING]}
        /\ calls' = IF refused THEN Finish(c, Raise("IntegrityError", 432))
                    ELSE Finish(c, Ok(433))
        /\ UNCHANGED <<organizations, members, now, result, media_rows>>

\* lines 488-503: the call is entered with an invitation instance loaded
\* earlier; status and expires_at are read from that instance
accept_invitation_begin(c, invitation, request_user) ==
    /\ calls[c].pc \in {"idle", "done"}
    /\ calls' =
           [calls EXCEPT ![c] =
               [pc |-> IF invitation.status # PENDING
                          \/ invitation.expires_at <= now
                       THEN "done" ELSE "save_status",
                op |-> "accept_invitation",
                exit |-> IF invitation.status # PENDING
                         THEN Raise("ValueError", 500)
                         ELSE Raise("ValueError", 503),
                invitation |-> invitation,
                request_user |-> request_user]]
    /\ UNCHANGED <<organizations, members, invitations, now, result, media_rows>>

\* lines 505-506: invitation.save(update_fields=['status'])
accept_invitation_save_status(c) ==
    LET call == calls[c]
    IN  /\ call.pc = "save_status"
        /\ invitations' =
               {IF i.id = call.invitation.id
                THEN [i EXCEPT !.status = ACCEPTED] ELSE i :
                    i \in invitations}
        /\ calls' = Goto(c, "create_member")
        /\ UNCHANGED <<organizations, members, now, result, media_rows>>

\* Member.invitation is one-to-one (the reads select_related('member') on
\* Invitation, lines 340 and 376): a second Member row for an invitation is
\* refused by the storage layer.
MemberOfInvitationExists(invitation_id) ==
    \E m \in members : m.invitation = invitation_id

\* lines 507-514: Member.objects.create(...)
accept_invitation_create_member(c) ==
    LET call == calls[c]
        refused == MemberOfInvitationExists(call.invitation.id)
    IN  /\ call.pc = "create_member"
        /\ members' =
               IF refused THEN members
               ELSE members \cup
                   {[id |-> NewId(members),
                     invitation |-> call.invitation.id,
                     organization |-> call.invitation.organization,
                     permission_level |-> call.invitation.permission_level,
                     user |-> call.request_user]}
        /\ calls' = IF refused THEN Finish(c, Raise("IntegrityError", 513))
                    ELSE Finish(c, Ok(514))
        /\ UNCHANGED <<organizations, invitations, now, result, media_rows>>

\* line 513: the insert of the Member row is refused by the storage
\* layer; the exception leaves accept_invitation, and the status saved at
\* line 506 stays, there being no transaction to roll back
accept_invitation_create_member_fails(c) ==
    LET call == calls[c]
    IN  /\ call.pc = "create_member"
        /\ calls' = Finish(c, Raise("DatabaseError", 513))
        /\ UNCHANGED <<organizations, members, invitations, now, result, media_rows>>

\* lines 464-476: cancel_invitation is entered with an invitation instance
\* loaded earlier; the status is read from that instance
cancel_invitation_begin(c, invitation, request_user) ==
    /\ calls[c].pc \in {"idle", "done"}
    /\ calls' =
           [calls EXCEPT ![c] =
               [pc |-> IF invitation.status # PENDING
                       THEN "done" ELSE "authorize_cancel",
                op |-> "cancel_invitation",
                exit |-> Raise("ValueError", 476),
                invitation |-> invitation,
                request_user |-> request_user]]
    /\ UNCHANGED <<organizations, members, invitations, now, result, media_rows>>

\* lines 478-482: the gate
cancel_invitation_authorize(c) ==
    LET call == calls[c]
        gate == _check_user_permission("cancel_invitation",
                    OrganizationById(call.invitation.organization),
                    call.request_user)
    IN  /\ call.pc = "authorize_cancel"
        /\ calls' = IF gate.outcome # "ok" THEN Finish(c, gate)
                    ELSE Goto(c, "save_canceled")
        /\ UNCHANGED <<organizations, members, invitations, now, result, media_rows>>

\* lines 484-486: invitation.save(update_fields=['status'])
cancel_invitation_save(c) ==
    LET call == calls[c]
    IN  /\ call.pc = "save_canceled"
        /\ invitations' =
               {IF i.id = call.invitation.id
                THEN [i EXCEPT !.status = CANCELED] ELSE i :
                    i \in invitations}
        /\ calls' = Finish(c, Ok(486))
        /\ UNCHANGED <<organizations, members, now, result, media_rows>>

\* lines 516-528: decline_invitation is entered with an invitation instance
\* loaded earlier; the status is read from that instance
decline_invitation_begin(c, invitation, request_user) ==
    /\ calls[c].pc \in {"idle", "done"}
    /\ calls' =
           [calls EXCEPT ![c] =
               [pc |-> IF invitation.status # PENDING
                       THEN "done" ELSE "save_declined",
                op |-> "decline_invitation",
                exit |-> Raise("ValueError", 528),
                invitation |-> invitation,
                request_user |-> request_user]]
    /\ UNCHANGED <<organizations, members, invitations, now, result, media_rows>>

\* lines 530-532: invitation.save(update_fields=['status'])
decline_invitation_save(c) ==
    LET call == calls[c]
    IN  /\ call.pc = "save_declined"
        /\ invitations' =
               {IF i.id = call.invitation.id
                THEN [i EXCEPT !.status = DECLINED] ELSE i :
                    i \in invitations}
        /\ calls' = Finish(c, Ok(532))
        /\ UNCHANGED <<organizations, members, now, result, media_rows>>

InviteConcNext ==
    \/ \E c \in CallIds, m \in InviteEmails, t \in Times,
          o \in organizations, l \in {0, OWNER}, u \in Users :
           /\ Cardinality(invitations) < InviteMaxInvitations
           /\ create_invitation_begin(c, m, t, o, l, u)
    \/ \E c \in CallIds : create_invitation_precheck_invited(c)
    \/ \E c \in CallIds : create_invitation_precheck_joined(c)
    \/ \E c \in CallIds : create_invitation_authorize(c)
    \/ \E c \in CallIds : create_invitation_insert(c)
    \/ \E c \in CallIds, i \in invitations, u \in Users :
           /\ Cardinality(members) < InviteMaxMembers
           /\ accept_invitation_begin(c, i, u)
    \/ \E c \in CallIds : accept_invitation_save_status(c)
    \/ \E c \in CallIds : accept_invitation_create_member(c)
    \/ \E c \in CallIds : accept_invitation_create_member_fails(c)

SpecInviteConc == InviteConcInit /\ [][InviteConcNext]_vars

(***************************************************************************)
(* Concurrent accept_invitation, decline_invitation and cancel_invitation  *)
(* with the clock and the sweep, which is a single UPDATE statement.  The  *)
(* store holds two pending invitations of organization 1, one expiring at  *)
(* MaxTime and one at time 0.                                              *)
(***************************************************************************)
StatusConcInit ==
    /\ organizations =
           {[id |-> 1, owner |-> "A", super_organization |-> None,
             permissions_policy |-> DEFAULT_PERMISSIONS_POLICY]}
    /\ members =
           {[id |-> 1, invitation |-> None, organization |-> 1,
             permission_level |-> OWNER, user |-> "A"]}
    /\ invitations =
           {[id |-> 1, organization |-> 1, inviter |-> "A",
             email |-> "b@x.com", expires_at |-> MaxTime,
             permission_level |-> DefaultInvitationLevel,
             status |-> PENDING],
            [id |-> 2, organization |-> 1, inviter |-> "A",
             email |-> "c@x.com", expires_at |-> 0,
             permission_level |-> DefaultInvitationLevel,
             status |-> PENDING]}
    /\ now = 0
    /\ result = Exit("init", "ok", 0, {}, {})
    /\ calls = [c \in CallIds |-> [pc |-> "idle"]]
    /\ media_rows = {}

StatusConcNext ==
    \/ \E c \in CallIds, i \in invitations, u \in Users :
           /\ Cardinality(members) < InviteMaxMembers
           /\ accept_invitation_begin(c, i, u)
    \/ \E c \in CallIds : accept_invitation_save_status(c)
    \/ \E c \in CallIds : accept_invitation_create_member(c)
    \/ \E c \in CallIds, i \in invitations, u \in Users :
           cancel_invitation_begin(c, i, u)
    \/ \E c \in CallIds : cancel_invitation_authorize(c)
    \/ \E c \in CallIds : cancel_invitation_save(c)
    \/ \E c \in CallIds, i \in invitations, u \in Users :
           decline_invitation_begin(c, i, u)
    \/ \E c \in CallIds : decline_invitation_save(c)
    \/ revoke_expired_invitation_set
    \/ Tick

SpecStatusConc == StatusConcInit /\ [][StatusConcNext]_vars

(***************************************************************************)
(* The read operations, on the stores that policy updates, create_owner,   *)
(* create_invitation, accept_invitation and the clock make of the store    *)
(* left by create_organization(A) and create_owner(organization, A).  A    *)
(* lookup by id is tried with every id in the table and one that is not.   *)
(***************************************************************************)
OrganizationArguments == organizations \cup {NoOrganization}

ReadNext ==
    \/ \E d \in ServicePolicyInputs, o \in organizations, u \in Users :
           update_organization_policy(d, o, u)
    \/ \E o \in organizations, u \in Users :
           /\ Cardinality(members) < MaxMembers
           /\ create_owner(o, u)
    \/ \E m \in Emails, t \in Times, o \in organizations, u \in Users :
           /\ Cardinality(invitations) < MaxInvitations
           /\ create_invitation(m, t, o, 0, u)
    \/ \E i \in invitations, u \in Users :
           /\ Cardinality(members) < MaxMembers
           /\ accept_invitation(i, u)
    \/ Tick
    \/ \E id \in Ids(organizations) \cup {NewId(organizations)},
          u \in Users : get_organization(id, u)
    \/ \E o \in organizations, u \in Users : get_sub_organization_set(o, u)
    \/ \E o \in OrganizationArguments, u \in Users :
           get_invitation_set(o, u)
    \/ \E id \in Ids(invitations) \cup {NewId(invitations)},
          o \in OrganizationArguments, u \in Users :
           get_invitation(id, o, u)
    \/ \E o \in OrganizationArguments, u \in Users : get_member_set(o, u)
    \/ \E id \in Ids(members) \cup {NewId(members)},
          o \in OrganizationArguments, u \in Users : get_member(id, o, u)

SpecRead == InviteInit /\ [][ReadNext]_vars

(***************************************************************************)
(* The invitation workflow under a clock that keeps advancing and a sweep  *)
(* that keeps being run (a periodic job).  Time has no end, so every       *)
(* expires_at handed out lies before the last instant of the model's       *)
(* clock.                                                                  *)
(***************************************************************************)
LiveExpiries == {t \in Times : t < MaxTime}

LiveNext ==
    \/ \E m \in InviteEmails, t \in LiveExpiries, o \in organizations,
          u \in Users :
           /\ Cardinality(invitations) < InviteMaxInvitations
           /\ create_invitation(m, t, o, 0, u)
    \/ \E i \in invitations, u \in Users : cancel_invitation(i, u)
    \/ \E i \in invitations, u \in Users :
           /\ Cardinality(members) < InviteMaxMembers
           /\ accept_invitation(i, u)
    \/ \E i \in invitations, u \in Users : decline_invitation(i, u)
    \/ revoke_expired_invitation_set
    \/ Tick

SpecLive ==
    /\ InviteInit
    /\ [][LiveNext]_vars
    /\ WF_vars(Tick)
    /\ WF_vars(revoke_expired_invitation_set)

(***************************************************************************)
(* The media services.  MediaService.put and MediaFileService.put are the   *)
(* same procedure over two models; MediaFileService.put also records the   *)
(* owner.  media_rows holds the rows of both tables, told apart by their   *)
(* model field.  NotGiven stands for the Python value None of an optional  *)
(* text argument, which is distinct from the empty string.                 *)
(***************************************************************************)
MaxMedia == 2
NotGiven == "None"
NoMedia == [id |-> None]
MediaModels == {"Media", "MediaFile"}
UrlArguments == {NotGiven, "", "https://x/u"}
FileArguments == {NotGiven, "", "f.png"}
FileLocations == {"", "dir/"}
FileNames == {""}
TitleArguments == {NotGiven, "t"}

MediaServiceLines ==
    [url_return |-> 38, file_return |-> 56, title_return |-> 62,
     raise |-> 64, url_save |-> 37, file_save |-> 55]
MediaFileServiceLines ==
    [url_return |-> 68, file_return |-> 89, title_return |-> 95,
     raise |-> 97, url_save |-> 67, file_save |-> 88]

\* A FileField stores the name of its file as text: save() writes str() of
\* the field's value, which is the empty string when the value is None.
FieldFileName(file) == IF file = NotGiven THEN "" ELSE file

\* MediaFile.Meta.constraints: exactly one of external_url and file is blank.
not_both_external_url_and_file_blank(row) ==
    \/ row.external_url = "" /\ row.file # ""
    \/ row.external_url # "" /\ row.file = ""

\* The Media model is not among the sources; its records are described as
\* holding either an external URL or an uploaded file, mutually exclusive.
MediaConstraint(row) ==
    \/ row.external_url = "" /\ row.file # ""
    \/ row.external_url # "" /\ row.file = ""

CheckConstraints(row) ==
    IF row.model = "MediaFile"
    THEN not_both_external_url_and_file_blank(row)
    ELSE MediaConstraint(row)

\* self._media_model(): a new instance with a fresh id and the fields'
\* defaults.  The id differs from every stored id, a deleted row's included.
NewMediaId(rows) == CHOOSE k \in 1..(MaxMedia + 1) : k \notin Ids(rows)
NewMedia(model, rows) ==
    [model |-> model, id |-> NewMediaId(rows), title |-> "",
     external_url |-> "", file |-> "", file_location |-> "",
     file_name |-> "", owner |-> NoUser]

\* instance.save(): inserts the row or updates the row of the same id; the
\* check constraint is evaluated by the store, which raises IntegrityError.
SaveMedia(rows, row) == {r \in rows : r.id # row.id} \cup {row}

\* The instance put works on: the one given, or a new one when none is given
\* or when the given one holds a file, in which case the given row is
\* deleted first.
PutInstance(model, media) ==
    IF media = NoMedia \/ media.file # ""
    THEN NewMedia(model, media_rows)
    ELSE media
PutDeleted(media) ==
    IF media # NoMedia /\ media.file # ""
    THEN media_rows \ {media}
    ELSE media_rows

put_call_UrlWins(model, lines, external_url, file, file_location, file_name, media, title, request_user) ==
    LET has_external_url == external_url # NotGiven
        has_file == file # NotGiven
        instance == PutInstance(model, media)
        titled == IF title # NotGiven
                  THEN [instance EXCEPT !.title = title]
                  ELSE instance
        owned == IF model = "MediaFile" /\ request_user # NoUser
                 THEN [titled EXCEPT !.owner = request_user]
                 ELSE titled
        with_url == [owned EXCEPT !.external_url = external_url,
                                  !.file = FieldFileName(NotGiven),
                                  !.file_location = "",
                                  !.file_name = ""]
        with_file == [owned EXCEPT !.external_url = "",
                                   !.file = FieldFileName(file),
                                   !.file_location = file_location,
                                   !.file_name = file_name]
        saving(row, save_line, return_line) ==
            IF CheckConstraints(row)
            THEN [exit |-> Ok(return_line), row |-> row,
                  rows |-> SaveMedia(PutDeleted(media), row)]
            ELSE [exit |-> Raise("IntegrityError", save_line), row |-> row,
                  rows |-> PutDeleted(media)]
    IN  IF has_external_url
        THEN saving(with_url, lines.url_save, lines.url_return)
        ELSE IF ~has_external_url /\ has_file
        THEN saving(with_file, lines.file_save, lines.file_return)
        ELSE IF ~has_external_url /\ ~has_file
                /\ media # NoMedia /\ title # NotGiven
        THEN [exit |-> Ok(lines.title_return),
              row |-> [media EXCEPT !.title = title],
              rows |-> SaveMedia(media_rows, [media EXCEPT !.title = title])]
        ELSE [exit |-> Raise("ValueError", lines.raise), row |-> NoMedia,
              rows |-> media_rows]

put_call(model, lines, external_url, file, file_location, file_name, media, title, request_user) ==
    LET has_external_url == external_url # NotGiven
        has_file == file # NotGiven
        instance == PutInstance(model, media)
        titled == IF title # NotGiven
                  THEN [instance EXCEPT !.title = title]
                  ELSE instance
        owned == IF model = "MediaFile" /\ request_user # NoUser
                 THEN [titled EXCEPT !.owner = request_user]
                 ELSE titled
        with_url == [owned EXCEPT !.external_url = external_url,
                                  !.file = FieldFileName(NotGiven),
                                  !.file_location = "",
                                  !.file_name = ""]
        with_file == [owned EXCEPT !.external_url = "",
                                   !.file = FieldFileName(file),
                                   !.file_location = file_location,
                                   !.file_name = file_name]
        saving(row, save_line, return_line) ==
            IF CheckConstraints(row)
            THEN [exit |-> Ok(return_line), row |-> row,
                  rows |-> SaveMedia(PutDeleted(media), row)]
            ELSE [exit |-> Raise("IntegrityError", save_line), row |-> row,
                  rows |-> PutDeleted(media)]
    IN  IF has_external_url /\ ~has_file
        THEN saving(with_url, lines.url_save, lines.url_return)
        ELSE IF ~has_external_url /\ has_file
        THEN saving(with_file, lines.file_save, lines.file_return)
        ELSE IF ~has_external_url /\ ~has_file
                /\ media # NoMedia /\ title # NotGiven
        THEN [exit |-> Ok(lines.title_return),
              row |-> [media EXCEPT !.title = title],
              rows |-> SaveMedia(media_rows, [media EXCEPT !.title = title])]
        ELSE [exit |-> Raise("ValueError", lines.raise), row |-> NoMedia,
              rows |-> media_rows]

MediaService_put(external_url, file, file_location, file_name, media, title) ==
    LET c == put_call("Media", MediaServiceLines, external_url, file,
                      file_location, file_name, media, title, NoUser)
    IN  /\ media_rows' = c.rows
        /\ result' = Exit("MediaService.put", c.exit.outcome, c.exit.line,
                          IF c.exit.outcome = "ok" THEN {c.row.id} ELSE {},
                          IF c.exit.outcome = "ok" THEN {"media"} ELSE {})
        /\ UNCHANGED <<organizations, members, invitations, now, calls>>

MediaFileService_put(external_url, file, file_location, file_name, mediafile, title, request_user) ==
    LET c == put_call("MediaFile", MediaFileServiceLines, external_url, file,
                      file_location, file_name, mediafile, title,
                      request_user)
    IN  /\ media_rows' = c.rows
        /\ result' = Exit("MediaFileService.put", c.exit.outcome,
                          c.exit.line,
                          IF c.exit.outcome = "ok" THEN {c.row.id} ELSE {},
                          IF c.exit.outcome = "ok" THEN {"mediafile"} ELSE {})
        /\ UNCHANGED <<organizations, members, invitations, now, calls>>

RowsOf(model) == {r \in media_rows : r.model = model}
Fits(media) == media # NoMedia \/ Cardinality(media_rows) < MaxMedia

MediaNext ==
    \/ \E external_url \in UrlArguments, file \in FileArguments,
          file_location \in FileLocations, file_name \in FileNames,
          media \in RowsOf("Media") \cup {NoMedia},
          title \in TitleArguments :
           /\ Fits(media)
           /\ MediaService_put(external_url, file, file_location, file_name,
                               media, title)
    \/ \E external_url \in UrlArguments, file \in FileArguments,
          file_location \in FileLocations, file_name \in FileNames,
          mediafile \in RowsOf("MediaFile") \cup {NoMedia},
          title \in TitleArguments, request_user \in Users \cup {NoUser} :
           /\ Fits(mediafile)
           /\ MediaFileService_put(external_url, file, file_location,
                                   file_name, mediafile, title, request_user)

SpecMedia == Init /\ [][MediaNext]_vars

(***************************************************************************)
(* Properties.                                                             *)
(***************************************************************************)
OwnerLevelMember(organization_id, user) ==
    \E m \in members :
        /\ m.organization = organization_id
        /\ m.user = user
        /\ m.permission_level = OWNER

PassesGate(action, organization, user) ==
    _check_user_permission(action, organization, user).outcome = "ok"

DeniedByGate(action, organization, user) ==
    _check_user_permission(action, organization, user).outcome
        = "PermissionDenied"

\* C1: in every reachable state each organization's owner holds a Member row
\* of that organization whose permission_level equals OWNER.
C1_OwnerHoldsOwnerMember ==
    \A o \in organizations : OwnerLevelMember(o.id, o.owner)

\* C2: an authorized update_member_permission with a new level on the
\* current owner's OWNER-level member fails when new_owner is absent or holds
\* no OWNER-level Member row of the organization, and then the organizations
\* and the members are as before the call.
C2_OwnerDemotionNeedsCoOwner ==
    \A m \in members, n \in Users \cup {NoUser}, l \in MemberLevels,
       u \in Users :
        LET o == OrganizationById(m.organization)
            call == update_member_permission_call(m, n, l, u)
        IN  ( /\ l # m.permission_level
              /\ m.permission_level = OWNER
              /\ m.user = o.owner
              /\ (n = NoUser \/ ~OwnerLevelMember(o.id, n))
              /\ PassesGate("update_member_permission", o, u) )
            => /\ call.exit.outcome = "ValueError"
               /\ call.organizations = organizations
               /\ call.members = members

C2_Witness ==
    /\ result.op = "update_member_permission"
    /\ result.outcome = "ValueError"
    /\ result.line = 676
    /\ \E o \in organizations :
           /\ OwnerLevelMember(o.id, o.owner)
           /\ \E m \in members :
                  /\ m.organization = o.id
                  /\ m.user # o.owner
                  /\ m.permission_level # OWNER

\* C3: an authorized update_member_permission with a different level on the
\* current owner's OWNER-level member, naming a new_owner who holds an
\* OWNER-level Member row of the organization, succeeds: the organization's
\* owner becomes new_owner, the member's level becomes the requested one,
\* and every other member and every other organization is unchanged.
C3_OwnershipTransfer ==
    \A m \in members, n \in Users, l \in MemberLevels, u \in Users :
        LET o == OrganizationById(m.organization)
            call == update_member_permission_call(m, n, l, u)
        IN  ( /\ l # m.permission_level
              /\ m.permission_level = OWNER
              /\ m.user = o.owner
              /\ OwnerLevelMember(o.id, n)
              /\ PassesGate("update_member_permission", o, u) )
            => /\ call.exit.outcome = "ok"
               /\ call.organizations =
                      (organizations \ {o}) \cup {[o EXCEPT !.owner = n]}
               /\ call.members =
                      (members \ {m})
                          \cup {[m EXCEPT !.permission_level = l]}

C3_Witness ==
    /\ result.op = "update_member_permission"
    /\ result.outcome = "ok"
    /\ result.saved = {"organization", "member"}
    /\ \E o \in organizations, m \in members :
           /\ m.organization = o.id
           /\ m.user # o.owner
           /\ m.permission_level # OWNER
           /\ OwnerLevelMember(o.id, o.owner)

\* C4: when update_member_permission calls on one organization run
\* concurrently with their steps interleaved, then once every call has
\* finished the organization's owner holds an OWNER-level Member row; the
\* calls considered name a new_owner other than the user of the member they
\* change.
C4_ConcurrentTransfersKeepOwner ==
    ( /\ \A c \in CallIds : ~Running(c)
      /\ \A c \in CallIds :
             calls[c].pc = "done" =>
                 calls[c].new_owner # calls[c].member.user )
    => \A o \in organizations : OwnerLevelMember(o.id, o.owner)

\* C5: under a stored policy of version 0 the gate allows an action,
\* whatever its name, exactly for the principals holding a Member row of the
\* organization with permission_level >= OWNER, and raises Permission
\* Denied for every other principal.
C5_Version0OwnersOnly ==
    \A o \in organizations :
        o.permissions_policy.version = 0 =>
            \A a \in Actions, u \in Users :
                LET owner_level ==
                        \E m \in members :
                            /\ m.organization = o.id
                            /\ m.user = u
                            /\ ~(m.permission_level < OWNER)
                IN  /\ owner_level => PassesGate(a, o, u)
                    /\ ~owner_level => DeniedByGate(a, o, u)

C5_Witness ==
    /\ result.op = "get_sub_organization_set"
    /\ result.outcome = "PermissionDenied"
    /\ result.line = 156
    /\ \E o \in organizations :
           /\ organizations = {o}
           /\ o.permissions_policy.version = 0
           /\ \E m1, m2 \in members :
                  /\ m1.organization = o.id /\ m2.organization = o.id
                  /\ m1.user # m2.user
                  /\ m1.permission_level >= OWNER
                  /\ m2.permission_level < OWNER

\* C6: under a stored policy of version 1 the gate allows an action for
\* every principal when the action is no key of the statement or is mapped
\* to 0, and when the action is mapped to a number k > 0 it allows the
\* action exactly for the principals holding a Member row of the
\* organization with permission_level >= k (Permission Denied otherwise).
C6_Version1Statement ==
    \A o \in organizations :
        o.permissions_policy.version = 1 =>
            \A a \in Actions, u \in Users :
                LET st == o.permissions_policy.statement
                    level_k(k) ==
                        \E m \in members :
                            /\ m.organization = o.id
                            /\ m.user = u
                            /\ ~(m.permission_level < k)
                IN  /\ a \notin DOMAIN st => PassesGate(a, o, u)
                    /\ (a \in DOMAIN st /\ st[a].type = "number") =>
                           /\ st[a].value = 0 => PassesGate(a, o, u)
                           /\ (st[a].value > 0 /\ level_k(st[a].value))
                                  => PassesGate(a, o, u)
                           /\ (st[a].value > 0 /\ ~level_k(st[a].value))
                                  => DeniedByGate(a, o, u)

C6_Witness ==
    \E o \in organizations, u \in Users, m \in members :
        /\ o.permissions_policy.version = 1
        /\ "update_member_permission" \in DOMAIN o.permissions_policy.statement
        /\ o.permissions_policy.statement["update_member_permission"].value
               = 1
        /\ m.organization = o.id
        /\ m.permission_level = 1
        /\ PassesGate("update_member_permission", o, m.user)
        /\ PassesGate("get_member_set", o, u)
        /\ PassesGate("delete_organization", o, u)
        /\ DeniedByGate("update_member_permission", o, u)
        /\ result.op = "update_member_permission"
        /\ result.outcome = "PermissionDenied"
        /\ result.line = 169

\* C7: under a stored policy whose version is neither 0 nor 1 the gate
\* raises Permission Denied for every action and every principal, the
\* organization's owner and its OWNER-level members included.
C7_UnknownVersionDenied ==
    \A o \in organizations :
        o.permissions_policy.version \notin {0, 1} =>
            \A a \in Actions, u \in Users : DeniedByGate(a, o, u)

C7_Witness ==
    /\ result.op = "get_sub_organization_set"
    /\ result.outcome = "PermissionDenied"
    /\ result.line = 172
    /\ \E o \in organizations :
           /\ organizations = {o}
           /\ o.permissions_policy.version = 2
           /\ \A u \in Users : OwnerLevelMember(o.id, u)

\* C8: a call that ends with Permission Denied leaves the organizations,
\* the members and the invitations exactly as they were before it.
C8_DeniedCallWritesNothing ==
    [][result'.outcome = "PermissionDenied" =>
          /\ organizations' = organizations
          /\ members' = members
          /\ invitations' = invitations
          /\ result'.saved = {}]_vars

C8_Witness ==
    /\ result.op = "cancel_invitation"
    /\ result.outcome = "PermissionDenied"
    /\ \E i \in invitations : i.status = PENDING

\* C9: create_organization(principal) yields a new organization owned by the
\* principal, without parent and with the version-0 policy, together with a
\* founding OWNER-level Member row for the principal, who therefore passes
\* the version-0 gate on the new organization.
C9_CreateOrganizationFoundsOwner ==
    [][result'.op = "create_organization" =>
       \A u \in Users :
          create_organization(u) =>
              \E o \in organizations' \ organizations :
                  /\ organizations' = organizations \cup {o}
                  /\ o.owner = u
                  /\ o.super_organization = None
                  /\ o.permissions_policy = DEFAULT_PERMISSIONS_POLICY
                  /\ \E m \in members' :
                         /\ m.organization = o.id
                         /\ m.user = u
                         /\ m.permission_level = OWNER]_vars

\* C10: create_sub_organization(parent, principal) succeeds only if the
\* principal passes the gate of the parent for 'create_sub_organization';
\* the new organization has the parent as super_organization, the principal
\* as owner with a founding OWNER-level Member row, and the version-0 policy
\* whatever the parent's policy is.
C10_CreateSubOrganization ==
    [][(result'.op = "create_sub_organization" /\ result'.outcome = "ok") =>
       \A p \in organizations, u \in Users :
          create_sub_organization(p, u) =>
              /\ PassesGate("create_sub_organization", p, u)
              /\ \E o \in organizations' \ organizations :
                     /\ organizations' = organizations \cup {o}
                     /\ o.owner = u
                     /\ o.super_organization = p.id
                     /\ o.permissions_policy.version = 0
                     /\ \E m \in members' :
                            /\ m.organization = o.id
                            /\ m.user = u
                            /\ m.permission_level = OWNER]_vars

\* C11: update_organization_policy by a principal who passes the gate
\* replaces the organization's stored policy with the given document when the
\* document satisfies the policy schema; when the document violates the
\* schema (or is missing) the call fails with a validation error and the
\* stored policy is unchanged; in both cases no other organization changes.
C11_PolicyReplacedOrRejected ==
    [][result'.op = "update_organization_policy" =>
       \A d \in PolicyInputs, o \in organizations, u \in Users :
          (PassesGate("update_organization_policy", o, u)
               /\ update_organization_policy(d, o, u)) =>
              /\ \A x \in organizations \ {o} : x \in organizations'
              /\ IF d.vtype # "none" /\ PERMISSIONS_POLICY_SCHEMA(d)
                 THEN /\ result'.outcome = "ok"
                      /\ organizations' = (organizations \ {o}) \cup
                             {[o EXCEPT !.permissions_policy = d]}
                 ELSE /\ result'.outcome \in {"ValueError", "ValidationError"}
                      /\ organizations' = organizations]_vars

\* C12: when calls run one at a time, every reachable store holds at most one
\* invitation in status PENDING for each (organization, email) pair.
PendingFor(organization_id, email) ==
    {i \in invitations :
        /\ i.organization = organization_id
        /\ i.email = email
        /\ i.status = PENDING}

C12_OnePendingPerPair ==
    \A i \in invitations :
        Cardinality(PendingFor(i.organization, i.email)) <= 1

\* A second create_invitation for the pair of the pending invitation has
\* been refused while the table had room for another row.
C12_Witness ==
    /\ result.op = "create_invitation"
    /\ result.outcome = "already_invited"
    /\ Cardinality(invitations) = 1
    /\ \A i \in invitations : i.status = PENDING

\* C13: when create_invitation calls for the same (organization, email) run
\* concurrently, statement by statement, no interleaving leaves two PENDING
\* invitations for the pair, and a call that does not create the invitation
\* ends with the 'already invited' conflict (or with 'already joined' or
\* Permission Denied, the other outcomes create_invitation has), never with
\* an error of the storage layer.
C13_ConcurrentInvitesOneWinner ==
    /\ \A i \in invitations :
           Cardinality(PendingFor(i.organization, i.email)) <= 1
    /\ \A c \in CallIds :
           (calls[c].pc = "done" /\ calls[c].op = "create_invitation") =>
               calls[c].exit.outcome \in
                   {"ok", "already_invited", "already_joined",
                    "PermissionDenied"}

\* C14: create_invitation for (organization, email) fails with code
\* 'already_invited' when a PENDING invitation for the pair exists, and with
\* code 'already_joined' when no such invitation is pending and a Member of
\* the organization has that email; this holds whether or not the caller
\* passes the gate, and in both cases no invitation is created.
C14_ConflictsBeforeAuthorization ==
    [][result'.op = "create_invitation" =>
       \A m \in InviteEmails, t \in Times, o \in organizations,
          l \in ServiceLevels, u \in Users :
          create_invitation(m, t, o, l, u) =>
              /\ PendingFor(o.id, m) # {} =>
                     /\ result'.outcome = "already_invited"
                     /\ invitations' = invitations
              /\ (PendingFor(o.id, m) = {} /\ AlreadyJoined(o, m)) =>
                     /\ result'.outcome = "already_joined"
                     /\ invitations' = invitations]_vars

\* C15: create_invitation raises 'already invited' only when a PENDING
\* invitation for the same (organization, email) exists; when none is
\* pending and the email is not a Member's, a caller who passes the gate
\* creates a new PENDING invitation for the pair.
C15_ReinviteAfterClosedInvitation ==
    [][result'.op = "create_invitation" =>
       \A m \in InviteEmails, t \in Times, o \in organizations,
          l \in ServiceLevels, u \in Users :
          create_invitation(m, t, o, l, u) =>
              /\ result'.outcome = "already_invited" =>
                     PendingFor(o.id, m) # {}
              /\ (/\ PendingFor(o.id, m) = {}
                  /\ ~AlreadyJoined(o, m)
                  /\ PassesGate("create_invitation", o, u)) =>
                     /\ result'.outcome = "ok"
                     /\ \E i \in invitations' \ invitations :
                            /\ i.organization = o.id
                            /\ i.email = m
                            /\ i.status = PENDING]_vars

\* C16: every invitation is created in status PENDING; once its status is
\* ACCEPTED, DECLINED, CANCELED or EXPIRED, no later call changes the row
\* (status and permission_level included), so the status changes at most
\* once; accept_invitation, decline_invitation, cancel_invitation and
\* update_invitation_permission on it fail with ValueError, and the sweep
\* does not select it.
InvitationOperations ==
    {"accept_invitation", "decline_invitation", "cancel_invitation",
     "update_invitation_permission"}

C16_StatusChangesOnce ==
    [][/\ \A i \in invitations' :
              i.id \notin Ids(invitations) => i.status = PENDING
       /\ \A i \in invitations : i.status # PENDING => i \in invitations'
       /\ result'.op \in InvitationOperations =>
              \A i \in invitations, u \in Users :
                 i.status # PENDING =>
                     /\ accept_invitation(i, u) =>
                            result'.outcome = "ValueError"
                     /\ decline_invitation(i, u) =>
                            result'.outcome = "ValueError"
                     /\ cancel_invitation(i, u) =>
                            result'.outcome = "ValueError"
                     /\ \A l \in ServiceLevels \ {0} :
                            update_invitation_permission(i, l, u) =>
                                result'.outcome = "ValueError"
       /\ result'.op = "revoke_expired_invitation_set" =>
              \A i \in invitations :
                 i.status # PENDING => i.id \notin result'.rows]_vars

\* decline_invitation has been refused on an invitation that was canceled
\* before.
C16_Witness ==
    /\ result.op = "decline_invitation"
    /\ result.outcome = "ValueError"
    /\ invitations # {}
    /\ \A i \in invitations : i.status = CANCELED

\* C17: accept_invitation on an invitation that is not PENDING, or whose
\* expires_at is not strictly later than the current time, fails and leaves
\* the invitations and the members as they were; a PENDING invitation whose
\* expires_at is earlier than the current time is EXPIRED after
\* revoke_expired_invitation_set.
C17_LateAcceptRefused ==
    [][/\ result'.op = "accept_invitation" =>
              \A i \in invitations, u \in Users :
                 ((i.status # PENDING \/ i.expires_at <= now)
                      /\ accept_invitation(i, u)) =>
                     /\ result'.outcome = "ValueError"
                     /\ invitations' = invitations
                     /\ members' = members
       /\ result'.op = "revoke_expired_invitation_set" =>
              \A i \in invitations :
                 (i.status = PENDING /\ i.expires_at < now) =>
                     [i EXCEPT !.status = EXPIRED] \in invitations']_vars

\* accept_invitation has been refused for a pending invitation on account of
\* its expires_at, and the invitation is still PENDING.
C17_Witness ==
    /\ result.op = "accept_invitation"
    /\ result.outcome = "ValueError"
    /\ result.line = 503
    /\ invitations # {}
    /\ \A i \in invitations : i.status = PENDING /\ i.expires_at <= now

\* C18: a successful accept_invitation(invitation, principal) acts on a
\* PENDING invitation whose expires_at is later than the current time, sets
\* that invitation's status to ACCEPTED and adds exactly one Member row: its
\* user is the principal, its organization the invitation's, its
\* permission_level the invitation's at that time, its invitation
\* back-reference the invitation; every other Member row stays as it was.
C18_AcceptCreatesOneMember ==
    [][(result'.op = "accept_invitation" /\ result'.outcome = "ok") =>
       \A i \in invitations, u \in Users :
          accept_invitation(i, u) =>
              /\ i.status = PENDING
              /\ i.expires_at > now
              /\ invitations' =
                     (invitations \ {i}) \cup {[i EXCEPT !.status = ACCEPTED]}
              /\ \E m \in members' \ members :
                     /\ members' = members \cup {m}
                     /\ m.id \notin Ids(members)
                     /\ m.user = u
                     /\ m.organization = i.organization
                     /\ m.permission_level = i.permission_level
                     /\ m.invitation = i.id]_vars

\* An invitation granting the OWNER level has been accepted.
C18_Witness ==
    /\ result.op = "accept_invitation"
    /\ result.outcome = "ok"
    /\ \E m \in members, i \in invitations :
           /\ m.invitation = i.id
           /\ i.status = ACCEPTED
           /\ m.permission_level = OWNER

\* C19: the status transition and the Member creation of accept_invitation
\* are one unit: when the Member creation fails after the status has been
\* written (and no other call is under way), the invitation is PENDING and
\* no Member row refers to it, so that a retried accept_invitation can
\* succeed.
C19_AcceptIsAtomic ==
    \A c \in CallIds :
        (/\ calls[c].pc = "done"
         /\ calls[c].op = "accept_invitation"
         /\ calls[c].exit.outcome = "DatabaseError"
         /\ \A d \in CallIds \ {c} : calls[d].pc = "idle") =>
            /\ \E i \in invitations :
                   i.id = calls[c].invitation.id /\ i.status = PENDING
            /\ \A m \in members : m.invitation # calls[c].invitation.id

\* C20: accept_invitation succeeds only for a principal whose email equals
\* the invitation's email: every Member row created by acceptance belongs to
\* the user the invitation was addressed to.
C20_AcceptedByAddressee ==
    \A m \in members :
        m.invitation # None =>
            \E i \in invitations :
                i.id = m.invitation /\ i.email = UserEmail[m.user]

\* C21: update_member_permission with permission_level equal to the member's
\* current level returns at the comparison of line 648, before the gate: for
\* every caller, every new_owner and every stored policy the call ends
\* without error (never with Permission Denied) and writes nothing.
C21_SameLevelReturnsEarly ==
    \A m \in members, n \in Users \cup {NoUser}, u \in Users :
        LET call == update_member_permission_call(m, n,
                                                  m.permission_level, u)
        IN  /\ call.exit = Ok(648)
            /\ call.organizations = organizations
            /\ call.members = members
            /\ call.saved = {}

\* The call has returned at line 648 in a store where every organization's
\* policy has a version outside {0, 1}, so that the gate would deny everyone.
C21_Witness ==
    /\ result.op = "update_member_permission"
    /\ result.outcome = "ok"
    /\ result.line = 648
    /\ members # {}
    /\ \A o \in organizations : o.permissions_policy.version = 2

\* C22: revoke_expired_invitation_set sets to EXPIRED exactly the invitations
\* that are PENDING with expires_at earlier than the current time, and leaves
\* every other invitation, every member and every organization unchanged;
\* afterwards no invitation matches the sweep's filter, so that a second run
\* at the same time changes nothing.
C22_SweepExpiresExactlyTheOverdue ==
    [][result'.op = "revoke_expired_invitation_set" =>
          /\ \A i \in invitations :
                 IF i.status = PENDING /\ i.expires_at < now
                 THEN [i EXCEPT !.status = EXPIRED] \in invitations'
                 ELSE i \in invitations'
          /\ Cardinality(invitations') = Cardinality(invitations)
          /\ members' = members
          /\ organizations' = organizations
          /\ \A i \in invitations' :
                 ~(i.status = PENDING /\ i.expires_at < now')]_vars

\* The sweep has expired one invitation and left another, whose expires_at
\* has not passed, PENDING.
C22_Witness ==
    /\ result.op = "revoke_expired_invitation_set"
    /\ result.rows # {}
    /\ \E i \in invitations : i.status = EXPIRED /\ i.id \in result.rows
    /\ \E i \in invitations : i.status = PENDING /\ i.expires_at >= now

\* C23: update_invitation_permission and cancel_invitation succeed only on a
\* PENDING invitation and only for a principal who passes the gate for that
\* action on the invitation's organization; the former changes only the
\* invitation's permission_level, the latter only its status (to CANCELED);
\* no other invitation, no member and no organization changes.
C23_InvitationEditsOneField ==
    [][(/\ result'.op \in {"update_invitation_permission",
                           "cancel_invitation"}
        /\ result'.outcome = "ok") =>
       \A i \in invitations, u \in Users :
          /\ \A l \in ServiceLevels \ {0} :
                 update_invitation_permission(i, l, u) =>
                     /\ i.status = PENDING
                     /\ PassesGate("update_invitation_permission",
                                   OrganizationById(i.organization), u)
                     /\ invitations' = (invitations \ {i}) \cup
                            {[i EXCEPT !.permission_level = l]}
                     /\ members' = members
                     /\ organizations' = organizations
          /\ cancel_invitation(i, u) =>
                 /\ i.status = PENDING
                 /\ PassesGate("cancel_invitation",
                               OrganizationById(i.organization), u)
                 /\ invitations' = (invitations \ {i}) \cup
                        {[i EXCEPT !.status = CANCELED]}
                 /\ members' = members
                 /\ organizations' = organizations]_vars

\* update_invitation_permission has raised a pending invitation to the OWNER
\* level while a second invitation is in the table.
C23_Witness ==
    /\ result.op = "update_invitation_permission"
    /\ result.outcome = "ok"
    /\ Cardinality(invitations) = 2
    /\ \E i \in invitations :
           i.status = PENDING /\ i.permission_level = OWNER

\* C24: decline_invitation on a PENDING invitation succeeds for every caller
\* and every policy of the organization (no gate is asked), sets the status
\* to DECLINED and creates no Member; on an invitation that is not PENDING
\* it fails with ValueError and changes nothing.
C24_DeclineNeedsNoAuthorization ==
    [][result'.op = "decline_invitation" =>
       \A i \in invitations, u \in Users :
          decline_invitation(i, u) =>
              /\ members' = members
              /\ organizations' = organizations
              /\ IF i.status = PENDING
                 THEN /\ result'.outcome = "ok"
                      /\ invitations' = (invitations \ {i}) \cup
                             {[i EXCEPT !.status = DECLINED]}
                 ELSE /\ result'.outcome = "ValueError"
                      /\ invitations' = invitations]_vars

\* An invitation has been declined in an organization whose policy has
\* version 2, under which the gate denies every action.
C24_Witness ==
    /\ result.op = "decline_invitation"
    /\ result.outcome = "ok"
    /\ \E i \in invitations :
           /\ i.status = DECLINED
           /\ OrganizationById(i.organization).permissions_policy.version = 2

\* C25: every read scoped to an organization (get_organization by its id,
\* get_sub_organization_set, get_invitation_set, get_member_set, and
\* get_invitation and get_member for a row of the organization) raises
\* Permission Denied and returns nothing when the requesting principal does
\* not pass that organization's gate for the action.
C25_ScopedReadsAreGated ==
    [][result'.op \in {"get_organization", "get_sub_organization_set",
                       "get_invitation_set", "get_invitation",
                       "get_member_set", "get_member"} =>
       \A o \in organizations, u \in Users :
          LET refused == /\ result'.outcome = "PermissionDenied"
                         /\ result'.rows = {}
          IN  /\ (~PassesGate("get_organization", o, u)
                      /\ get_organization(o.id, u)) => refused
              /\ (~PassesGate("get_sub_organization_set", o, u)
                      /\ get_sub_organization_set(o, u)) => refused
              /\ (~PassesGate("get_invitation_set", o, u)
                      /\ get_invitation_set(o, u)) => refused
              /\ (~PassesGate("get_member_set", o, u)
                      /\ get_member_set(o, u)) => refused
              /\ \A i \in invitations :
                     (/\ i.organization = o.id
                      /\ ~PassesGate("get_invitation", o, u)
                      /\ get_invitation(i.id, o, u)) => refused
              /\ \A m \in members :
                     (/\ m.organization = o.id
                      /\ ~PassesGate("get_member", o, u)
                      /\ get_member(m.id, o, u)) => refused]_vars

\* C26: the reads called without an organization (get_member_set,
\* get_member, get_invitation_set, get_invitation) never raise Permission
\* Denied, whatever the stored policies, and return only Members whose user
\* is the requesting principal and only Invitations whose email is the
\* principal's.
C26_UnscopedReadsAreOwnRows ==
    [][result'.op \in {"get_invitation_set", "get_invitation",
                       "get_member_set", "get_member"} =>
       \A u \in Users :
          LET own_members ==
                  /\ result'.outcome # "PermissionDenied"
                  /\ \A m \in members : m.id \in result'.rows => m.user = u
              own_invitations ==
                  /\ result'.outcome # "PermissionDenied"
                  /\ \A i \in invitations :
                         i.id \in result'.rows => i.email = UserEmail[u]
          IN  /\ get_member_set(NoOrganization, u) => own_members
              /\ \A id \in Ids(members) \cup {NewId(members)} :
                     get_member(id, NoOrganization, u) => own_members
              /\ get_invitation_set(NoOrganization, u) => own_invitations
              /\ \A id \in Ids(invitations) \cup {NewId(invitations)} :
                     get_invitation(id, NoOrganization, u) =>
                         own_invitations]_vars

\* C27: the scenario of the specification runs as stated.  (1) Once A has
\* created organization O, A holds an OWNER-level Member M1 of O and passes
\* O's gate for create_invitation.  (2) While B's Member M2, created by
\* accepting A's invitation, is below OWNER, update_member_permission(M1,
\* level below OWNER, new_owner=B) by A fails and changes nothing.  (3) Once
\* M2 is at OWNER level the same call succeeds, O.owner is B and M1 has the
\* lower level.
C27_ScenarioRuns ==
    /\ (/\ result.op = "create_organization"
        /\ result.outcome = "ok"
        /\ Cardinality(organizations) = 1) =>
           \A o \in organizations :
               /\ OwnerLevelMember(o.id, o.owner)
               /\ PassesGate("create_invitation", o, o.owner)
    /\ \A o \in organizations, m1 \in members, m2 \in members,
          i \in invitations, l \in 1..(OWNER - 1) :
           (/\ o.owner = "A" /\ o.permissions_policy.version = 0
            /\ m1.organization = o.id /\ m1.user = "A"
            /\ m1.permission_level = OWNER
            /\ m2.organization = o.id /\ m2.user = "B"
            /\ m2.invitation = i.id /\ i.status = ACCEPTED
            /\ i.email = "b@x.com"
            /\ \A m \in members : m \in {m1, m2}) =>
               LET call == update_member_permission_call(m1, "B", l, "A")
               IN  IF m2.permission_level < OWNER
                   THEN /\ call.exit.outcome = "ValueError"
                        /\ call.organizations = organizations
                        /\ call.members = members
                   ELSE /\ call.exit.outcome = "ok"
                        /\ call.organizations =
                               (organizations \ {o}) \cup
                                   {[o EXCEPT !.owner = "B"]}
                        /\ call.members =
                               (members \ {m1}) \cup
                                   {[m1 EXCEPT !.permission_level = l]}

\* C28: when accept_invitation, decline_invitation and cancel_invitation act
\* concurrently on the same PENDING invitation, exactly one of them takes
\* effect: no two calls on the same invitation both end successfully, and
\* the status written by a successful accept_invitation (with the Member it
\* created) is never overwritten.
StatusOperations ==
    {"accept_invitation", "decline_invitation", "cancel_invitation"}

Succeeded(c) ==
    /\ calls[c].pc = "done"
    /\ calls[c].op \in StatusOperations
    /\ calls[c].exit.outcome = "ok"

C28_OneTransitionTakesEffect ==
    /\ \A c \in CallIds, d \in CallIds :
           (c # d /\ Succeeded(c) /\ Succeeded(d)) =>
               calls[c].invitation.id # calls[d].invitation.id
    /\ \A c \in CallIds :
           (Succeeded(c) /\ calls[c].op = "accept_invitation") =>
               \A i \in invitations :
                   i.id = calls[c].invitation.id => i.status = ACCEPTED
    /\ \A m \in members, i \in invitations :
           (m.invitation = i.id
                /\ \A c \in CallIds : calls[c].pc \in {"idle", "done"}) =>
               i.status = ACCEPTED

\* C29: ownership moves only to a different user: update_member_permission
\* that lowers the level of the current owner's OWNER-level member while
\* naming that same owner as new_owner fails, whoever calls it, and leaves
\* the organizations and the members unchanged.
C29_NoTransferToOneself ==
    \A m \in members, l \in MemberLevels, u \in Users :
        (/\ IsCurrentOwnerMember(m, OrganizationById(m.organization))
         /\ l < m.permission_level) =>
            LET call == update_member_permission_call(m, m.user, l, u)
            IN  /\ call.exit.outcome # "ok"
                /\ call.organizations = organizations
                /\ call.members = members

\* C30: when calls run one at a time, in every reachable store an invitation
\* has status ACCEPTED if and only if exactly one Member row references it;
\* no invitation is referenced by two Members, and every Member that
\* references an invitation references an ACCEPTED one.
MembersOf(invitation_id) == {m \in members : m.invitation = invitation_id}

C30_AcceptedIffOneMember ==
    /\ \A i \in invitations :
           /\ Cardinality(MembersOf(i.id)) <= 1
           /\ i.status = ACCEPTED <=> Cardinality(MembersOf(i.id)) = 1
    /\ \A m \in members :
           m.invitation # None =>
               \E i \in invitations :
                   i.id = m.invitation /\ i.status = ACCEPTED

\* Two invitations have been accepted; each is referenced by one Member.
C30_Witness ==
    /\ Cardinality(invitations) = 2
    /\ \A i \in invitations :
           i.status = ACCEPTED /\ Cardinality(MembersOf(i.id)) = 1

\* C31: when time keeps advancing and revoke_expired_invitation_set keeps
\* being run (weak fairness on both), every invitation that is PENDING
\* eventually has one of the statuses ACCEPTED, DECLINED, CANCELED or
\* EXPIRED; no invitation stays PENDING forever.
C31_PendingEventuallyCloses ==
    \A k \in 1..InviteMaxInvitations :
        (\E i \in invitations : i.id = k /\ i.status = PENDING)
            ~> (\E i \in invitations :
                    i.id = k /\ i.status \in {ACCEPTED, DECLINED,
                                              CANCELED, EXPIRED})

\* The sweep has closed a pending invitation on which nobody acted.
C31_Witness ==
    /\ result.op = "revoke_expired_invitation_set"
    /\ result.rows # {}
    /\ \A i \in invitations : i.status = EXPIRED
    /\ invitations # {}

\* C32: whenever accept_invitation has rejected a PENDING invitation as
\* expired (line 503), revoke_expired_invitation_set run next, at the same
\* time, sets that invitation to EXPIRED; stated for the store's only
\* invitation, so that the rejected invitation is the one looked at.
C32_RejectedAsExpiredIsSwept ==
    [][(/\ result.op = "accept_invitation"
        /\ result.line = 503
        /\ Cardinality(invitations) = 1
        /\ result'.op = "revoke_expired_invitation_set") =>
           \A i \in invitations' : i.status = EXPIRED]_vars

\* C33: no principal grants a permission level above their own: a successful
\* update_member_permission never raises a member to a level higher than the
\* caller's own level in that organization, and a successful
\* create_invitation or update_invitation_permission never gives an
\* invitation a level higher than the caller's own.
CallerLevel(organization_id, user) ==
    LET levels == {m.permission_level : m \in
                      {x \in members : /\ x.organization = organization_id
                                       /\ x.user = user}}
    IN  IF levels = {} THEN 0 ELSE Max(levels)

C33_NoGrantAboveOwnLevel ==
    [][/\ (result'.op = "update_member_permission"
               /\ result'.outcome = "ok") =>
              \A m \in members, n \in Users \cup {NoUser},
                 l \in ServiceLevels \ {0}, u \in Users :
                 (update_member_permission(m, n, l, u)
                      /\ l > m.permission_level) =>
                     l <= CallerLevel(m.organization, u)
       /\ (result'.op = "create_invitation" /\ result'.outcome = "ok") =>
              \A m \in Emails, t \in Times, o \in organizations,
                 l \in ServiceLevels, u \in Users :
                 create_invitation(m, t, o, l, u) =>
                     \A i \in invitations' \ invitations :
                         i.permission_level <= CallerLevel(o.id, u)
       /\ (result'.op = "update_invitation_permission"
               /\ result'.outcome = "ok") =>
              \A i \in invitations, l \in ServiceLevels \ {0},
                 u \in Users :
                 update_invitation_permission(i, l, u) =>
                     l <= CallerLevel(i.organization, u)]_vars

\* C34: once an organization holds a schema-valid policy whose version is
\* outside {0, 1} it is locked: every gated operation on it, the owner's
\* update_organization_policy included, fails with PermissionDenied, and its
\* policy, its owner and its members' levels never change again.
Locked(o) ==
    /\ _validate_permissions_policy(o.permissions_policy).outcome = "ok"
    /\ o.permissions_policy.version \notin {0, 1}

LockedStays(o) ==
    /\ \E p \in organizations' :
           /\ p.id = o.id
           /\ p.permissions_policy = o.permissions_policy
           /\ p.owner = o.owner
    /\ \A m \in members :
           m.organization = o.id =>
               \E x \in members' :
                   x.id = m.id /\ x.permission_level = m.permission_level

GatedOutcome(o, Allowed(_)) ==
    /\ result'.op = "get_sub_organization_set" =>
           \A u \in Users :
               get_sub_organization_set(o, u) => Allowed(result')
    /\ result'.op = "update_organization_policy" =>
           \A d \in ServicePolicyInputs, u \in Users :
               update_organization_policy(d, o, u) => Allowed(result')
    /\ result'.op = "create_sub_organization" =>
           \A u \in Users :
               create_sub_organization(o, u) => Allowed(result')
    /\ result'.op = "delete_organization" =>
           \A u \in Users : delete_organization(o, u) => Allowed(result')
    /\ result'.op = "create_invitation" =>
           \A m \in Emails, t \in Times, l \in ServiceLevels, u \in Users :
               create_invitation(m, t, o, l, u) => Allowed(result')
    /\ result'.op = "update_invitation_permission" =>
           \A i \in invitations, l \in ServiceLevels \ {0}, u \in Users :
               (i.organization = o.id
                    /\ update_invitation_permission(i, l, u)) =>
                   Allowed(result')
    /\ result'.op = "cancel_invitation" =>
           \A i \in invitations, u \in Users :
               (i.organization = o.id /\ cancel_invitation(i, u)) =>
                   Allowed(result')
    /\ result'.op = "update_member_permission" =>
           \A m \in members, n \in Users \cup {NoUser},
              l \in ServiceLevels \ {0}, u \in Users :
               (m.organization = o.id
                    /\ update_member_permission(m, n, l, u)) =>
                   Allowed(result')

IsPermissionDenied(r) == r.outcome = "PermissionDenied"

C34_LockedDeniesEveryGatedOperation ==
    [][\A o \in organizations :
           Locked(o) =>
               LockedStays(o) /\ GatedOutcome(o, IsPermissionDenied)]_vars

\* C34, amended: on a locked organization no gated operation takes effect:
\* each fails (PermissionDenied at the permission check, or the error of a
\* check the operation makes before it), except update_member_permission
\* asking for the member's current level, which returns without a write; the
\* policy, the owner and the members' levels never change again.
FailsOrNoOp(r) ==
    \/ r.outcome # "ok"
    \/ r.op = "update_member_permission" /\ r.line = 648 /\ r.saved = {}

C34_LockedTakesNoGatedEffect ==
    [][\A o \in organizations :
           Locked(o) =>
               LockedStays(o) /\ GatedOutcome(o, FailsOrNoOp)]_vars

C34_Witness ==
    /\ result.op = "update_organization_policy"
    /\ result.outcome = "PermissionDenied"
    /\ result.line = 172
    /\ \E o \in organizations :
           /\ Locked(o)
           /\ MemberWithLevelGte(o.id, o.owner, OWNER)
           /\ Cardinality(organizations) = 1

\* C35: each user has at most one Member row per organization: a successful
\* accept_invitation by a principal who already is a Member of the
\* invitation's organization adds no second row for that (organization,
\* user) pair.
C35_AcceptAddsNoSecondMemberRow ==
    [][(result'.op = "accept_invitation" /\ result'.outcome = "ok") =>
           \A x \in members' \ members :
               ~\E m \in members :
                   m.organization = x.organization /\ m.user = x.user]_vars

\* C36: the super_organization relation is acyclic: the parent of an
\* organization is fixed at creation to an organization that already exists
\* and never changes, so no organization is its own transitive ancestor.
RECURSIVE Ancestors(_, _)
Ancestors(organization, depth) ==
    IF depth = 0 \/ organization.super_organization = None THEN {}
    ELSE LET parents == {p \in organizations :
                            p.id = organization.super_organization}
         IN  {p.id : p \in parents}
                 \cup UNION {Ancestors(p, depth - 1) : p \in parents}

Acyclic ==
    \A o \in organizations :
        /\ o.id \notin Ancestors(o, MaxOrgs)
        /\ o.super_organization # None =>
               /\ o.super_organization < o.id
               /\ \E p \in organizations : p.id = o.super_organization

ParentNeverChanges ==
    \A o \in organizations, p \in organizations' :
        p.id = o.id => p.super_organization = o.super_organization

C36_SuperOrganizationAcyclic == []Acyclic /\ [][ParentNeverChanges]_vars

C36_Witness ==
    /\ result.op = "create_sub_organization"
    /\ result.outcome = "ok"
    /\ \E o \in organizations : Ancestors(o, MaxOrgs) # {}

\* C37: after every successful MediaService.put or MediaFileService.put that
\* supplies content, the saved record has exactly one of external_url and
\* file non-empty; put with both supplied, or with neither and no (record,
\* title) pair, raises ValueError and saves nothing.
ExactlyOneOfUrlAndFile(row) ==
    \/ row.external_url # "" /\ row.file = ""
    \/ row.external_url = "" /\ row.file # ""

C37_PutKeepsUrlAndFileExclusive ==
    /\ \A r \in media_rows : ExactlyOneOfUrlAndFile(r)
    /\ \A model \in MediaModels, external_url \in UrlArguments,
          file \in FileArguments, file_location \in FileLocations,
          file_name \in FileNames, title \in TitleArguments,
          request_user \in Users \cup {NoUser} :
           \A media \in RowsOf(model) \cup {NoMedia} :
               LET lines == IF model = "Media" THEN MediaServiceLines
                            ELSE MediaFileServiceLines
                   c == put_call(model, lines, external_url, file,
                                 file_location, file_name, media, title,
                                 request_user)
                   both == external_url # NotGiven /\ file # NotGiven
                   neither == external_url = NotGiven /\ file = NotGiven
                   pair == media # NoMedia /\ title # NotGiven
               IN  /\ (c.exit.outcome = "ok" /\ ~neither) =>
                          /\ c.row \in c.rows
                          /\ ExactlyOneOfUrlAndFile(c.row)
                          /\ external_url # NotGiven =>
                                 c.row.external_url = external_url
                          /\ file # NotGiven => c.row.file = file
                   /\ (both \/ (neither /\ ~pair)) =>
                          /\ c.exit = Raise("ValueError", lines.raise)
                          /\ c.rows = media_rows

C37_Witness ==
    /\ result.op = "MediaFileService.put"
    /\ result.outcome = "ok"
    /\ result.line = MediaFileServiceLines.file_return
    /\ \E r \in RowsOf("MediaFile") :
           r.id \in result.rows /\ r.file # "" /\ r.external_url = ""
    /\ \E r \in RowsOf("Media") : r.external_url # "" /\ r.file = ""
====
